---- MODULE Spec2Model ----
(***************************************************************************)
(* Model of the Unilag Price Saver dashboards' client logic: the record    *)
(* store (allPrices / allCategories), the refresh handlers, the filter     *)
(* engine, the debounced global search, the price-alert evaluator with its *)
(* localStorage persistence, and the category statistics.                  *)
(*                                                                         *)
(* Two implementations of the user dashboard are in the sources and both   *)
(* are modelled; the variable `dashboard` says which script the page runs: *)
(*   "fixed"  : app/frontend/js/admin-dashboard.js, lines 247-1174         *)
(*   "legacy" : app/frontend/js/user-dashboard.js                          *)
(***************************************************************************)
EXTENDS Integers, Sequences, FiniteSets, TLC

VARIABLES
  dashboard,        \* which dashboard script runs on the page
  allPrices,        \* let allPrices: the current snapshot of price records
  allCategories,    \* let allCategories
  priceAlerts,      \* let priceAlerts: the in-memory alert rules
  lsPriceAlerts,    \* localStorage item 'priceAlerts' (JSON text, or absent)
  inflight,         \* fetches awaiting their response, in the order started
  displayed,        \* rows rendered in #pricesContainer by displayPrices
  handler,          \* the handler (or continuation) that ran last, and for a
                    \* fetch continuation how the fetch ended
  toasts,           \* notifications emitted by the handler that ran last
  now,              \* last value Date.now() returned
  stats,            \* the global statistics written by updateStats
  insights,         \* rows of the category insights modal
  filterCategory,   \* value of #filterCategory
  filterMinPrice,   \* value of #filterMinPrice
  filterMaxPrice,   \* value of #filterMaxPrice
  filterRetailer,   \* value of #filterRetailer
  filterLocation,   \* value of #filterLocation
  searchValue,      \* value of #globalSearch
  searchTimeout,    \* the pending debounce timer of the search input
  searchResults,    \* items rendered in #searchResults
  resultsOpen,      \* #searchResults has class 'open'
  quiet,            \* the quiescence window of the last search input has expired
  burstQueries,     \* queries issued by the input events of the current burst
  burstEvals,       \* queries evaluated since the current burst of inputs began
  deletedIds,       \* ids of the rules the user deleted and has not saved again
  otherTab,         \* a second dashboard open on the same localStorage, and
                    \* its own priceAlerts
  page,             \* the document this tab shows
  navigateTo,       \* the document window.location.href was last set to, until
                    \* the navigation is done
  lsSession,        \* localStorage items 'userRole' and 'loginToken'
  adminInflight,    \* fetches the admin dashboard has started
  sockets,          \* the WebSockets the PriceUpdater has created, by state
  ws,               \* PriceUpdater.ws: a position in sockets, 0 for null
  isConnecting,     \* PriceUpdater.isConnecting
  reconnectAttempts, \* PriceUpdater.reconnectAttempts
  reconnectTimers,  \* delays (ms) of the pending timers of attemptReconnect
  subscribers,      \* PriceUpdater.subscribers: item id -> its callbacks, in
                    \* the order they were added to the Set
  dispatch,         \* the handlePriceUpdate call in progress: the Set.forEach
                    \* it is in and the callbacks that loop has yet to visit
  invoked,          \* the callback the last step invoked, and for which item
  cancelled,        \* the (item id, callback) pairs whose unsubscribe function
                    \* was called and that were not subscribed again since
  disconnected,     \* disconnect() was called and connect() was not called
                    \* by the application since
  latestLoaded,     \* the price refresh started last has completed
  safeFetchCall     \* the last call of safeFetch: its position, its loop
                    \* counter, the fetches made, the delays waited, its result

vars == << dashboard, allPrices, allCategories, priceAlerts, lsPriceAlerts,
           inflight, displayed, handler, toasts, now, stats, insights,
           filterCategory, filterMinPrice, filterMaxPrice, filterRetailer,
           filterLocation, searchValue, searchTimeout, searchResults,
           resultsOpen, quiet, burstQueries, burstEvals, deletedIds,
           otherTab, page, navigateTo, lsSession, adminInflight, sockets, ws,
           isConnecting, reconnectAttempts, reconnectTimers, subscribers,
           dispatch, invoked, cancelled, disconnected, latestLoaded,
           safeFetchCall >>

filterVars == << filterCategory, filterMinPrice, filterMaxPrice,
                 filterRetailer, filterLocation >>

searchVars == << searchValue, searchTimeout, searchResults, resultsOpen,
                 quiet, burstQueries, burstEvals >>

alertVars == << priceAlerts, lsPriceAlerts, now, deletedIds >>

sessionVars == << page, navigateTo, lsSession, adminInflight >>

updaterVars == << sockets, ws, isConnecting, reconnectAttempts,
                  reconnectTimers, disconnected >>

subscriberVars == << subscribers, dispatch, invoked, cancelled >>

\* The code no handler of the dashboards calls: PriceUpdater and safeFetch
libraryVars == << updaterVars, subscriberVars, safeFetchCall >>

\* What the handlers of one user dashboard leave alone: the other tab, the
\* session and the PriceUpdater
outsideVars == << otherTab, sessionVars, libraryVars, latestLoaded >>

(***************************************************************************)
(* Bounds of the model.                                                    *)
(***************************************************************************)
MaxSnap == 2        \* longest price list the API returns
MaxAlerts == 2      \* most alert rules held at once
MaxInflight == 2    \* most fetches in flight at once
MaxNow == 2         \* largest clock value Date.now() returns

(***************************************************************************)
(* JavaScript strings are sequences of one-character strings, so that      *)
(* toLowerCase, trim and includes are computed, not assumed.  Null is the  *)
(* JavaScript null of an optional field.                                   *)
(***************************************************************************)
Null == << "null" >>

UpperCase == << "A", "B", "C", "D", "E", "F", "G", "H", "I", "J", "K", "L", "M",
                "N", "O", "P", "Q", "R", "S", "T", "U", "V", "W", "X", "Y", "Z" >>
LowerCase == << "a", "b", "c", "d", "e", "f", "g", "h", "i", "j", "k", "l", "m",
                "n", "o", "p", "q", "r", "s", "t", "u", "v", "w", "x", "y", "z" >>

\* The lower-case letter of each upper-case letter
LowerOf == [c \in { UpperCase[k] : k \in DOMAIN UpperCase } |->
              LowerCase[CHOOSE k \in DOMAIN UpperCase : UpperCase[k] = c]]

LowerChar(c) == IF c \in DOMAIN LowerOf THEN LowerOf[c] ELSE c

\* String.prototype.toLowerCase
ToLowerCase(s) == [i \in DOMAIN s |-> LowerChar(s[i])]

\* String.prototype.includes
Includes(s, q) ==
  \E k \in 0..(Len(s) - Len(q)) : SubSeq(s, k + 1, k + Len(q)) = q

RECURSIVE TrimStart(_)
TrimStart(s) == IF s # << >> /\ Head(s) = " " THEN TrimStart(Tail(s)) ELSE s

RECURSIVE TrimEnd(_)
TrimEnd(s) ==
  IF s # << >> /\ s[Len(s)] = " " THEN TrimEnd(SubSeq(s, 1, Len(s) - 1)) ELSE s

\* String.prototype.trim
Trim(s) == TrimEnd(TrimStart(s))

\* JavaScript truthiness of an optional string field (null and '' are falsy)
Truthy(s) == s # Null /\ s # << >>

\* A price that is not a number (JSON null); every other price is a natural
NullPrice == 0 - 1

\* typeof p.price === 'number'
IsNumber(p) == p # NullPrice

\* ToNumber(p.price) in a comparison: null converts to 0
ToNumber(p) == IF p = NullPrice THEN 0 ELSE p

\* p.price || 0
PriceOrZero(p) == IF p = NullPrice THEN 0 ELSE p


Digits == << "0", "1", "2", "3", "4", "5", "6", "7", "8", "9" >>

IsDigit(c) == \E d \in DOMAIN Digits : Digits[d] = c

DigitVal(c) == (CHOOSE d \in DOMAIN Digits : Digits[d] = c) - 1

\* The value parseFloat and the || operator give for text that is no number
NaN == 0 - 2

RECURSIVE ParseDigits(_, _)
ParseDigits(s, acc) ==
  IF s # << >> /\ IsDigit(Head(s))
    THEN ParseDigits(Tail(s), 10 * acc + DigitVal(Head(s)))
    ELSE acc

\* parseFloat on the text of an input: the longest leading run of digits,
\* NaN when there is none (the model's inputs carry no sign or fraction)
ParseFloat(s) ==
  IF s # << >> /\ IsDigit(Head(s)) THEN ParseDigits(s, 0) ELSE NaN

\* String(n) of a small natural
String(n) == IF n < 10 THEN << Digits[n + 1] >>
             ELSE << Digits[(n \div 10) + 1], Digits[(n % 10) + 1] >>

(***************************************************************************)
(* Price records and categories as the API returns them.                   *)
(***************************************************************************)
Rec(id, cat, name, brand, price, retailer, location) ==
  [id |-> id, category_id |-> cat, name |-> name, brand |-> brand,
   price |-> price, retailer |-> retailer, location |-> location]

\* The categories the API serves (GET /items/categories/all)
SrvCategories ==
  << [id |-> 1, name |-> << "F", "o", "o", "d" >>],
     [id |-> 2, name |-> << "D", "r", "i", "n", "k" >>] >>

sRice == << "R", "i", "c", "e" >>
sRI == << "R", "I" >>
sOil == << "O", "i", "l" >>
sShop == << "S", "h", "o", "p" >>
sshop == << "s", "h", "o", "p" >>
sYaba == << "Y", "a", "b", "a" >>
sAkoka == << "A", "k", "o", "k", "a" >>
sRio == << "R", "i", "o" >>

\* Records of the refresh, alert and aggregation scenarios: two prices of one
\* item in one category, and an item of a category the API does not serve
PriceRecords ==
  { Rec(1, 1, sRice, Null, 1, sShop, sYaba),
    Rec(2, 1, sRice, Null, 3, sshop, Null),
    Rec(3, 3, sRI, Null, 1, Null, sAkoka) }

\* Records of the filter scenarios: both categories, a price that is not a
\* number, present and absent retailer and location
FilterRecords ==
  { Rec(1, 1, sRice, Null, 1, sShop, sYaba),
    Rec(2, 2, sOil, Null, 3, Null, sAkoka),
    Rec(3, 1, sRice, Null, NullPrice, sshop, Null) }

\* Records of the search scenarios: a match by name, a match by brand only,
\* a match by retailer or location only
SearchRecords ==
  { Rec(1, 1, sRice, Null, 1, Null, Null),
    Rec(2, 2, sOil, sRio, 3, Null, sAkoka),
    Rec(3, 1, sOil, Null, 2, sShop, sYaba) }

\* All bodies of at most MaxSnap records drawn from a pool
SeqsUpTo(pool, n) == UNION { [1..k -> pool] : k \in 0..n }

\* The arrays GET /items/prices/all can return: records have distinct ids
Snapshots(pool) ==
  { b \in SeqsUpTo(pool, MaxSnap) :
      \A j, k \in DOMAIN b : j # k => b[j].id # b[k].id }

PriceSnapshots == Snapshots(PriceRecords)
FilterSnapshots == Snapshots(FilterRecords)
SearchSnapshots == Snapshots(SearchRecords)

\* The array a response carries: only a 200 carries one
Bodies(snapshots, outcome) == IF outcome = "ok" THEN snapshots ELSE { << >> }

(***************************************************************************)
(* Sequence helpers (Array.prototype.filter / find / reduce).              *)
(***************************************************************************)
RECURSIVE SelectIdx(_, _)
\* the increasing sequence of the indices of s that are in the set keep
SelectIdx(n, keep) ==
  IF n = 0 THEN << >>
  ELSE IF n \in keep THEN Append(SelectIdx(n - 1, keep), n)
  ELSE SelectIdx(n - 1, keep)

\* Array.prototype.filter with the predicate given as the set of kept indices
FilterIdx(s, keep) ==
  LET ix == SelectIdx(Len(s), keep) IN [k \in DOMAIN ix |-> s[ix[k]]]

RECURSIVE SumPrices(_)
\* prices.reduce((sum, p) => sum + (p.price || 0), 0)
SumPrices(s) ==
  IF s = << >> THEN 0 ELSE PriceOrZero(Head(s).price) + SumPrices(Tail(s))

Min(a, b) == IF a <= b THEN a ELSE b
Max(a, b) == IF a >= b THEN a ELSE b


(***************************************************************************)
(* Rendering of the price list and the statistics.                         *)
(***************************************************************************)
sUnknown == << "U", "n", "k", "n", "o", "w", "n" >>

\* allCategories.find(c => c.id === p.category_id), then cat?.name || 'Unknown'
CategoryLabel(cats, categoryId) ==
  IF \E k \in DOMAIN cats : cats[k].id = categoryId
    THEN cats[CHOOSE k \in DOMAIN cats :
                /\ cats[k].id = categoryId
                /\ \A j \in DOMAIN cats : cats[j].id = categoryId => k <= j].name
    ELSE sUnknown

\* displayPrices(prices): one row per record, in order, with the category
\* label looked up in allCategories as it is at the time of the call
DisplayPrices(prices, cats) ==
  [k \in DOMAIN prices |->
     [rec |-> prices[k], label |-> CategoryLabel(cats, prices[k].category_id)]]

\* The records of the rendered rows
Recs(rows) == [k \in DOMAIN rows |-> rows[k].rec]

\* A quotient of two naturals, kept exact as numerator and denominator
Ratio(num, den) == [num |-> num, den |-> den]

\* prices.length ? sum / prices.length : 0
Average(prices) ==
  IF Len(prices) # 0 THEN Ratio(SumPrices(prices), Len(prices)) ELSE Ratio(0, 1)

\* The distinct count with the absent values taken as one more value
DistinctTruthy_WithAbsent(values) ==
  Cardinality({ values[k] : k \in DOMAIN values })

\* new Set(values.filter(Boolean)).size
DistinctTruthy(values) ==
  Cardinality({ values[k] : k \in { j \in DOMAIN values : Truthy(values[j]) } })

\* updateStats(prices)
UpdateStats(prices) ==
  [total |-> Len(prices),
   avg |-> Average(prices),
   locations |-> DistinctTruthy([k \in DOMAIN prices |-> prices[k].location]),
   retailers |-> DistinctTruthy([k \in DOMAIN prices |-> prices[k].retailer])]

\* The statistics the page shows before the first updateStats
NoStats == [total |-> 0, avg |-> Ratio(0, 1), locations |-> 0, retailers |-> 0]

(***************************************************************************)
(* Alert rules: evaluation and persistence.                                *)
(***************************************************************************)
\* Mutant of AlertMatches: the name is matched as a substring
AlertMatches_Substring(prices, alert) ==
  { k \in DOMAIN prices :
      /\ prices[k].name # Null
      /\ Includes(ToLowerCase(prices[k].name), ToLowerCase(alert.itemName))
      /\ ToNumber(prices[k].price) <= alert.threshold }

\* The indices of the records prices.find's predicate accepts for an alert:
\* p.name?.toLowerCase() === alert.itemName.toLowerCase() && p.price <= alert.threshold
AlertMatches(prices, alert) ==
  { k \in DOMAIN prices :
      /\ prices[k].name # Null
      /\ ToLowerCase(prices[k].name) = ToLowerCase(alert.itemName)
      /\ ToNumber(prices[k].price) <= alert.threshold }

\* Mutant of Fires: the early return for a triggered alert is missing
Fires_NoSkip(prices, alert) == AlertMatches(prices, alert) # {}

\* The alert is untriggered and prices.find returns a record for it
Fires(prices, alert) == ~alert.triggered /\ AlertMatches(prices, alert) # {}

\* priceAlerts after the forEach of checkPriceAlerts(prices)
CheckedAlerts(prices, alerts) ==
  [i \in DOMAIN alerts |->
     IF Fires(prices, alerts[i]) THEN [alerts[i] EXCEPT !.triggered = TRUE]
     ELSE alerts[i]]

\* The record prices.find returns: the first match in snapshot order
FirstMatch(prices, alert) ==
  prices[CHOOSE k \in AlertMatches(prices, alert) :
           \A j \in AlertMatches(prices, alert) : k <= j]

\* The toasts checkPriceAlerts(prices) shows, one per alert it triggers
AlertToasts(prices, alerts) ==
  LET fired == SelectIdx(Len(alerts),
                         { i \in DOMAIN alerts : Fires(prices, alerts[i]) })
  IN [k \in DOMAIN fired |->
        [kind |-> "price-alert", rule |-> fired[k],
         itemName |-> alerts[fired[k]].itemName,
         price |-> FirstMatch(prices, alerts[fired[k]]).price]]

\* JSON.stringify(priceAlerts): the text holds each rule's fields in order
JSONStringify(alerts) ==
  [i \in DOMAIN alerts |->
     << alerts[i].id, alerts[i].itemName, alerts[i].threshold,
        alerts[i].triggered >>]

\* JSON.parse of that text
JSONParse(text) ==
  [i \in DOMAIN text |->
     [id |-> text[i][1], itemName |-> text[i][2], threshold |-> text[i][3],
      triggered |-> text[i][4]]]

\* localStorage.getItem('priceAlerts') || '[]'
StoredAlertsText(item) == IF item.present THEN item.text ELSE << >>

\* localStorage.setItem('priceAlerts', JSON.stringify(alerts))
SetItem(alerts) == [present |-> TRUE, text |-> JSONStringify(alerts)]

\* Mutant of PersistChecked: the triggered rules are never written back
PersistChecked_NoWrite(d, prices, alerts, item) == item

\* The item after checkPriceAlerts: the fixed dashboard writes only when an
\* alert triggered, the legacy dashboard writes after every evaluation
PersistChecked(d, prices, alerts, item) ==
  IF d = "legacy" \/ \E i \in DOMAIN alerts : Fires(prices, alerts[i])
    THEN SetItem(CheckedAlerts(prices, alerts))
    ELSE item


(***************************************************************************)
(* Page load.                                                              *)
(***************************************************************************)
NoTimer == [armed |-> FALSE, query |-> << >>]

\* The fetches loadInitialData starts: Promise.all([loadCategories(), loadPrices()])
InitialFetches == << [kind |-> "categories"], [kind |-> "prices"] >>

\* The state of a dashboard page once its DOMContentLoaded handler has run,
\* given the localStorage item it finds
PageLoaded(item) ==
  /\ allPrices = << >>
  /\ allCategories = << >>
  /\ priceAlerts = JSONParse(StoredAlertsText(item))
  /\ lsPriceAlerts = item
  /\ inflight = InitialFetches
  /\ displayed = << >>
  /\ handler = "DOMContentLoaded"
  /\ toasts = << >>
  /\ stats = NoStats
  /\ insights = << >>
  /\ filterCategory = << >>
  /\ filterMinPrice = << >>
  /\ filterMaxPrice = << >>
  /\ filterRetailer = << >>
  /\ filterLocation = << >>
  /\ searchValue = << >>
  /\ searchTimeout = NoTimer
  /\ searchResults = << >>
  /\ resultsOpen = FALSE
  /\ quiet = TRUE
  /\ burstQueries = << >>
  /\ burstEvals = << >>

\* What localStorage.getItem returns for a key that is not there
Absent == "(null)"

\* The session saveSession stores at the login of a user
UserSession == [role |-> "user", token |-> "token"]

\* A user is logged in and has the user dashboard open in one tab; no
\* PriceUpdater connection has been asked for
Elsewhere ==
  /\ deletedIds = { }
  /\ otherTab = [open |-> FALSE, priceAlerts |-> << >>]
  /\ page = "user-dashboard"
  /\ navigateTo = "none"
  /\ lsSession = UserSession
  /\ adminInflight = << >>
  /\ sockets = << >>
  /\ ws = 0
  /\ isConnecting = FALSE
  /\ reconnectAttempts = 0
  /\ reconnectTimers = << >>
  /\ disconnected = FALSE
  /\ latestLoaded = FALSE
  /\ subscribers = << >>
  /\ dispatch = [phase |-> "idle", item_id |-> 0, key |-> 0, todo |-> << >>,
                 live |-> FALSE]
  /\ invoked = << >>
  /\ cancelled = { }
  /\ safeFetchCall = [pc |-> "idle", retries |-> 0, i |-> 0, attempts |-> 0,
                      failures |-> << >>, waits |-> << >>, result |-> << >>]

Init ==
  /\ dashboard \in { "fixed", "legacy" }
  /\ now = 1
  /\ PageLoaded([present |-> FALSE, text |-> << >>])
  /\ Elsewhere

\* guardAccess of the user dashboard lets the session in
UserGuardPasses(session) ==
  ~(session.role = Absent \/ session.role # "user" \/ session.token = Absent)

\* The user dashboard loads in the tab (a reload, or a navigation to it): the
\* script's variables and the DOM start afresh, responses of the old page's
\* fetches are dropped, localStorage is kept; guardAccess sends a session it
\* does not let in to the login page, and the handler goes on
Reload ==
  /\ allPrices' = << >>
  /\ allCategories' = << >>
  /\ priceAlerts' = JSONParse(StoredAlertsText(lsPriceAlerts))
  /\ inflight' = InitialFetches
  /\ displayed' = << >>
  /\ handler' = "DOMContentLoaded"
  /\ toasts' = << >>
  /\ stats' = NoStats
  /\ insights' = << >>
  /\ filterCategory' = << >>
  /\ filterMinPrice' = << >>
  /\ filterMaxPrice' = << >>
  /\ filterRetailer' = << >>
  /\ filterLocation' = << >>
  /\ searchValue' = << >>
  /\ searchTimeout' = NoTimer
  /\ searchResults' = << >>
  /\ resultsOpen' = FALSE
  /\ quiet' = TRUE
  /\ burstQueries' = << >>
  /\ burstEvals' = << >>
  /\ page' = "user-dashboard"
  /\ navigateTo' = IF UserGuardPasses(lsSession) THEN "none" ELSE "login"
  /\ adminInflight' = << >>
  /\ UNCHANGED << dashboard, lsPriceAlerts, now, deletedIds >>
  /\ UNCHANGED << otherTab, lsSession, libraryVars >>
  /\ latestLoaded' = FALSE

(***************************************************************************)
(* Refresh: the continuations of loadCategories and loadPrices.            *)
(* An outcome is "ok" (200 with the JSON array), "httperr" (a non-OK       *)
(* response whose body is a JSON error object) or "neterr" (fetch rejects, *)
(* or the body is not JSON).                                               *)
(***************************************************************************)
Outcomes == { "ok", "httperr", "neterr" }

RemoveAt(s, i) == SubSeq(s, 1, i - 1) \o SubSeq(s, i + 1, Len(s))

\* allCategories after loadCategories ends with the outcome
CategoriesAfter(d, outcome, cats) ==
  IF outcome = "ok" THEN SrvCategories
  ELSE IF d = "legacy" /\ outcome = "neterr" THEN cats
  ELSE << >>

\* loadCategories got an array to fill the selects with (the legacy one does
\* not test response.ok): the options of #filterCategory are rebuilt, which
\* puts the select back on 'All Categories'
PopulatesSelects(d, outcome) ==
  outcome = "ok" \/ (d = "legacy" /\ outcome = "httperr")

\* loadCategories, from its response on
DeliverCategories(i, outcome) ==
  /\ i \in DOMAIN inflight
  /\ inflight[i].kind = "categories"
  /\ inflight' = RemoveAt(inflight, i)
  /\ allCategories' = CategoriesAfter(dashboard, outcome, allCategories)
  /\ handler' = IF outcome = "ok" THEN "loadCategories:ok"
                  ELSE "loadCategories:failed"
  /\ toasts' = << >>
  /\ filterCategory' = IF PopulatesSelects(dashboard, outcome)
                         THEN << >> ELSE filterCategory
  /\ UNCHANGED << dashboard, allPrices, displayed, stats, insights >>
  /\ UNCHANGED << filterMinPrice, filterMaxPrice, filterRetailer,
                  filterLocation >>
  /\ UNCHANGED << alertVars, searchVars >>
  /\ UNCHANGED outsideVars

\* Of the price refreshes awaiting their response, the one at position i of
\* the fetches in flight was started last
StartedLast(fetches, i) ==
  \A j \in DOMAIN fetches : j > i => fetches[j].kind # "prices"

\* The legacy loadPrices does not test response.ok: a JSON error object is
\* not an array, so it goes on with []
LoadsBody(d, outcome) == outcome = "ok" \/ (d = "legacy" /\ outcome = "httperr")

\* allPrices after loadPrices ends with the outcome (body: the array of a 200)
PricesAfter(d, outcome, body, prices) ==
  IF outcome = "ok" THEN body
  ELSE IF d = "legacy" /\ outcome = "neterr" THEN prices
  ELSE << >>

\* #pricesContainer after the catch of loadPrices: the fixed dashboard calls
\* displayPrices([]), the legacy one only logs
DisplayedAfterCatch(d, rows) == IF d = "fixed" THEN << >> ELSE rows

\* loadPrices, from its response on
DeliverPrices(i, outcome, body) ==
  /\ i \in DOMAIN inflight
  /\ inflight[i].kind = "prices"
  /\ inflight' = RemoveAt(inflight, i)
  /\ allPrices' = PricesAfter(dashboard, outcome, body, allPrices)
  /\ IF LoadsBody(dashboard, outcome)
       THEN \* displayPrices(allPrices); updateStats(allPrices); checkPriceAlerts(allPrices)
            /\ handler' = IF outcome = "ok" THEN "loadPrices:ok"
                                            ELSE "loadPrices:httperr"
            /\ displayed' = DisplayPrices(allPrices', allCategories)
            /\ stats' = UpdateStats(allPrices')
            /\ priceAlerts' = CheckedAlerts(allPrices', priceAlerts)
            /\ toasts' = AlertToasts(allPrices', priceAlerts)
            /\ lsPriceAlerts' =
                 PersistChecked(dashboard, allPrices', priceAlerts, lsPriceAlerts)
       ELSE \* catch
            /\ handler' = IF outcome = "httperr" THEN "loadPrices:httperr"
                                                 ELSE "loadPrices:neterr"
            /\ displayed' = DisplayedAfterCatch(dashboard, displayed)
            /\ toasts' = << >>
            /\ UNCHANGED << stats, priceAlerts, lsPriceAlerts >>
  /\ UNCHANGED << dashboard, allCategories, insights, now, deletedIds >>
  /\ UNCHANGED << filterVars, searchVars >>
  /\ UNCHANGED << otherTab, sessionVars, libraryVars >>
  /\ latestLoaded' = (latestLoaded \/ StartedLast(inflight, i))

\* submitPrice / onSubmitPrice once the POST has succeeded: the form is
\* reset and loadPrices() is started
SubmitPriceOk ==
  /\ Len(inflight) < MaxInflight
  /\ inflight' = Append(inflight, [kind |-> "prices"])
  /\ handler' = "submitPrice"
  /\ toasts' = IF dashboard = "fixed" THEN << [kind |-> "success"] >> ELSE << >>
  /\ UNCHANGED << dashboard, allPrices, allCategories, displayed, stats,
                  insights >>
  /\ UNCHANGED << alertVars, filterVars, searchVars >>
  /\ UNCHANGED << otherTab, sessionVars, libraryVars >>
  /\ latestLoaded' = FALSE

(***************************************************************************)
(* Saving and deleting alert rules.                                        *)
(***************************************************************************)
\* The check at the top of savePriceAlert
AlertInputValid(d, itemName, threshold) ==
  IF d = "fixed"
    THEN ~(itemName = << >> \/ threshold = NaN \/ threshold <= 0)
    ELSE ~(itemName = << >> \/ threshold = NaN)

\* savePriceAlert with the texts of #alertItemName and #alertThreshold, at
\* clock value t
SavePriceAlert(nameText, thresholdText, t) ==
  LET itemName == Trim(nameText)
      threshold == ParseFloat(thresholdText)
  IN /\ t >= now
     /\ t <= MaxNow
     /\ IF AlertInputValid(dashboard, itemName, threshold)
          THEN /\ Len(priceAlerts) < MaxAlerts
               /\ priceAlerts' =
                    Append(priceAlerts,
                           [id |-> t, itemName |-> itemName,
                            threshold |-> threshold, triggered |-> FALSE])
               /\ lsPriceAlerts' = SetItem(priceAlerts')
               /\ now' = t
               /\ deletedIds' = deletedIds \ { t }
               /\ handler' = "savePriceAlert"
               /\ toasts' = IF dashboard = "fixed"
                              THEN << [kind |-> "success"] >> ELSE << >>
          ELSE /\ handler' = "savePriceAlert:rejected"
               /\ toasts' = << [kind |-> "error"] >>
               /\ UNCHANGED << priceAlerts, lsPriceAlerts, now, deletedIds >>
     /\ UNCHANGED << dashboard, allPrices, allCategories, inflight, displayed,
                     stats, insights >>
     /\ UNCHANGED << filterVars, searchVars >>
     /\ UNCHANGED outsideVars

\* priceAlerts.filter(a => a.id !== alertId)
WithoutId(alerts, alertId) ==
  FilterIdx(alerts, { i \in DOMAIN alerts : alerts[i].id # alertId })

\* window.deleteAlert(alertId), from the Delete button of an active alert
\* (only the fixed dashboard has it)
DeleteAlert(alertId) ==
  /\ dashboard = "fixed"
  /\ \E i \in DOMAIN priceAlerts :
       priceAlerts[i].id = alertId /\ ~priceAlerts[i].triggered
  /\ priceAlerts' = WithoutId(priceAlerts, alertId)
  /\ lsPriceAlerts' = SetItem(priceAlerts')
  /\ deletedIds' = deletedIds \cup { alertId }
  /\ handler' = "deleteAlert"
  /\ toasts' = << [kind |-> "success"] >>
  /\ UNCHANGED << dashboard, allPrices, allCategories, inflight, displayed,
                  stats, insights, now >>
  /\ UNCHANGED << filterVars, searchVars >>
  /\ UNCHANGED outsideVars

(***************************************************************************)
(* The alert scenarios: refreshes, saves, deletes and reloads.             *)
(***************************************************************************)
srice == << "r", "i", "c", "e" >>
sRi == << "R", "i" >>

\* Texts typed into #alertItemName and #alertThreshold
AlertNameTexts == { srice, sRi, << " " >> }
AlertThresholdTexts == { << "1" >>, << "2" >>, << >> }

\* The values Date.now() can return in savePriceAlert; it is not called when
\* the input is rejected
ClockReadings(nameText, thresholdText) ==
  IF AlertInputValid(dashboard, Trim(nameText), ParseFloat(thresholdText))
    THEN now..MaxNow ELSE { now }

\* A click on #alertSaveBtn with the two texts in the inputs
SaveAlertClick(nameText, thresholdText) ==
  \E t \in ClockReadings(nameText, thresholdText) :
    SavePriceAlert(nameText, thresholdText, t)

Next ==
  \/ \E i \in 1..MaxInflight, o \in Outcomes : DeliverCategories(i, o)
  \/ \E i \in 1..MaxInflight, o \in Outcomes :
       \E body \in Bodies(PriceSnapshots, o) : DeliverPrices(i, o, body)
  \/ SubmitPriceOk
  \/ \E n \in AlertNameTexts, th \in AlertThresholdTexts : SaveAlertClick(n, th)
  \/ \E id \in 1..MaxNow : DeleteAlert(id)
  \/ Reload

Spec == Init /\ [][Next]_vars

(***************************************************************************)
(* The filter engine: applyFilters over the five filter inputs, and the    *)
(* reset button.                                                           *)
(***************************************************************************)
\* Number.POSITIVE_INFINITY
Infinity == 0 - 3

\* parseFloat(text) || dflt: NaN and 0 are falsy
ParseFloatOr(text, dflt) ==
  LET v == ParseFloat(text) IN IF v = NaN \/ v = 0 THEN dflt ELSE v

\* a <= b for a number a and a bound b that can be Infinity
Leq(a, b) == b = Infinity \/ a <= b

\* The predicate of allPrices.filter in applyFilters
FilterMatches(p, categoryId, minPrice, maxPrice, retailer, location) ==
  LET matchCategory == categoryId = << >> \/ String(p.category_id) = categoryId
      matchPrice == /\ IsNumber(p.price)
                    /\ p.price >= minPrice
                    /\ Leq(p.price, maxPrice)
      matchRetailer == \/ retailer = << >>
                       \/ /\ Truthy(p.retailer)
                          /\ Includes(ToLowerCase(p.retailer), retailer)
      matchLocation == \/ location = << >>
                       \/ /\ Truthy(p.location)
                          /\ Includes(ToLowerCase(p.location), location)
  IN matchCategory /\ matchPrice /\ matchRetailer /\ matchLocation

\* Filtering done the wrong way round: the matching records in reverse order
ApplyFilters_Reversed(prices, categoryText, minText, maxText, retailerText, locationText) ==
  LET keep == { k \in DOMAIN prices :
                  FilterMatches(prices[k], categoryText,
                                ParseFloatOr(minText, 0),
                                ParseFloatOr(maxText, Infinity),
                                ToLowerCase(retailerText),
                                ToLowerCase(locationText)) }
      kept == FilterIdx(prices, keep)
  IN [k \in DOMAIN kept |-> kept[Len(kept) + 1 - k]]

\* The array applyFilters passes to displayPrices, from the values of the inputs
ApplyFilters(prices, categoryText, minText, maxText, retailerText, locationText) ==
  LET categoryId == categoryText
      minPrice == ParseFloatOr(minText, 0)
      maxPrice == ParseFloatOr(maxText, Infinity)
      retailer == ToLowerCase(retailerText)
      location == ToLowerCase(locationText)
  IN FilterIdx(prices,
               { k \in DOMAIN prices :
                   FilterMatches(prices[k], categoryId, minPrice, maxPrice,
                                 retailer, location) })

\* applyFilters() with the five inputs holding the given values
ApplyFiltersWith(categoryText, minText, maxText, retailerText, locationText) ==
  /\ filterCategory' = categoryText
  /\ filterMinPrice' = minText
  /\ filterMaxPrice' = maxText
  /\ filterRetailer' = retailerText
  /\ filterLocation' = locationText
  /\ displayed' =
       DisplayPrices(ApplyFilters(allPrices, categoryText, minText, maxText,
                                  retailerText, locationText),
                     allCategories)
  /\ handler' = "applyFilters"
  /\ toasts' = << >>
  /\ UNCHANGED << dashboard, allPrices, allCategories, inflight, stats,
                  insights >>
  /\ UNCHANGED << alertVars, searchVars >>
  /\ UNCHANGED outsideVars

FilterIds == { "filterCategory", "filterMinPrice", "filterMaxPrice",
               "filterRetailer", "filterLocation" }

\* The value of a filter input
FilterValue(id) ==
  CASE id = "filterCategory" -> filterCategory
    [] id = "filterMinPrice" -> filterMinPrice
    [] id = "filterMaxPrice" -> filterMaxPrice
    [] id = "filterRetailer" -> filterRetailer
    [] id = "filterLocation" -> filterLocation

\* The options of the #filterCategory select: 'All Categories' and one per
\* loaded category
CategoryOptions ==
  { << >> } \cup { String(allCategories[k].id) : k \in DOMAIN allCategories }

\* Values the user gives a filter input
FilterTexts(id) ==
  CASE id = "filterCategory" -> CategoryOptions
    [] id = "filterMinPrice" -> { << >>, << "2" >> }
    [] id = "filterMaxPrice" -> { << >>, << "0" >>, << "2" >> }
    [] id = "filterRetailer" -> { << >>, << "S", "H" >> }
    [] id = "filterLocation" -> { << >>, << "A" >>, << "a", "K" >> }

\* An 'input' event of a filter input: its value has changed to text
FilterInput(id, text) ==
  /\ text # FilterValue(id)
  /\ ApplyFiltersWith(
       IF id = "filterCategory" THEN text ELSE filterCategory,
       IF id = "filterMinPrice" THEN text ELSE filterMinPrice,
       IF id = "filterMaxPrice" THEN text ELSE filterMaxPrice,
       IF id = "filterRetailer" THEN text ELSE filterRetailer,
       IF id = "filterLocation" THEN text ELSE filterLocation)

\* A 'change' event of a filter input: applyFilters runs again over the same
\* values
FilterChange ==
  ApplyFiltersWith(filterCategory, filterMinPrice, filterMaxPrice,
                   filterRetailer, filterLocation)

\* A click on #resetFiltersBtn
ResetFilters ==
  /\ filterCategory' = << >>
  /\ filterMinPrice' = << >>
  /\ filterMaxPrice' = << >>
  /\ filterRetailer' = << >>
  /\ filterLocation' = << >>
  /\ displayed' = DisplayPrices(allPrices, allCategories)
  /\ handler' = "resetFilters"
  /\ toasts' = << >>
  /\ UNCHANGED << dashboard, allPrices, allCategories, inflight, stats,
                  insights >>
  /\ UNCHANGED << alertVars, searchVars >>
  /\ UNCHANGED outsideVars

\* The 'priceAlerts' items a page can find in localStorage when it loads:
\* none, or the rules saved in an earlier visit
StoredItems ==
  { [present |-> FALSE, text |-> << >>],
    SetItem(<< [id |-> 1, itemName |-> srice, threshold |-> 2,
                triggered |-> FALSE] >>) }

InitStored ==
  /\ dashboard \in { "fixed", "legacy" }
  /\ now = 1
  /\ \E item \in StoredItems : PageLoaded(item)
  /\ Elsewhere

\* A filter input the user edits
EditFilter(id) == \E text \in FilterTexts(id) : FilterInput(id, text)

\* The filter scenarios: the initial load, edits of the filter inputs, resets
\* and reloads
NextFilter ==
  \/ \E i \in 1..MaxInflight, o \in Outcomes : DeliverCategories(i, o)
  \/ \E i \in 1..MaxInflight, o \in Outcomes :
       \E body \in Bodies(FilterSnapshots, o) : DeliverPrices(i, o, body)
  \/ \E id \in FilterIds : EditFilter(id)
  \/ FilterChange
  \/ ResetFilters
  \/ Reload

SpecFilter == InitStored /\ [][NextFilter]_vars

(***************************************************************************)
(* The global search: the 'input' listener of #globalSearch and its        *)
(* debounce timer.  Time is modelled by the quiescence window of the last  *)
(* input event: `quiet` is false from an input event until the window      *)
(* after it has expired, and the timer the listener arms (300 ms in the    *)
(* fixed dashboard, 200 ms in the legacy one) fires when that window       *)
(* expires.  A burst is a run of input events each of which arrives before *)
(* the window of the one before has expired; burstQueries and burstEvals   *)
(* record the queries issued and the queries evaluated in the current      *)
(* burst.                                                                  *)
(***************************************************************************)
MaxBurst == 2      \* most input events in one burst

\* filtered.slice(0, 6)
DisplayLimit == 6

Take(s, n) == SubSeq(s, 1, Min(Len(s), n))

\* searchInput.value.trim().toLowerCase()
QueryOf(text) == ToLowerCase(Trim(text))

\* p.field && p.field.toLowerCase().includes(q)
FieldIncludes(field, q) == Truthy(field) /\ Includes(ToLowerCase(field), q)

\* The predicate of allPrices.filter in the search callback: the legacy
\* dashboard does not look at the brand
SearchMatches(d, p, q) ==
  \/ FieldIncludes(p.name, q)
  \/ FieldIncludes(p.retailer, q)
  \/ FieldIncludes(p.location, q)
  \/ d = "fixed" /\ FieldIncludes(p.brand, q)

\* The items the callback renders in #searchResults (none: 'No results')
SearchItems(d, prices, q) ==
  Take(FilterIdx(prices, { k \in DOMAIN prices : SearchMatches(d, prices[k], q) }),
       DisplayLimit)

\* The query the timer callback works on: the fixed dashboard captured it in
\* the input event, the legacy one reads the input when the timer fires
TimerQuery == IF dashboard = "fixed" THEN searchTimeout.query
                                     ELSE QueryOf(searchValue)

\* An 'input' event of #globalSearch: its value has changed to text
SearchInput(text) ==
  LET query == QueryOf(text)
      queriesBefore == IF quiet THEN << >> ELSE burstQueries
      evalsBefore == IF quiet THEN << >> ELSE burstEvals
  IN /\ text # searchValue
     /\ Len(queriesBefore) < MaxBurst
     /\ searchValue' = text
     /\ quiet' = FALSE
     /\ burstQueries' = Append(queriesBefore, query)
     /\ toasts' = << >>
     /\ IF dashboard = "fixed" /\ query = << >>
          THEN \* clearTimeout; the empty query is handled at once
               /\ searchTimeout' = NoTimer
               /\ resultsOpen' = FALSE
               /\ displayed' = DisplayPrices(allPrices, allCategories)
               /\ burstEvals' = Append(evalsBefore, query)
               /\ handler' = "search:cleared"
               /\ UNCHANGED searchResults
          ELSE \* clearTimeout; setTimeout
               /\ searchTimeout' =
                    [armed |-> TRUE,
                     query |-> IF dashboard = "fixed" THEN query ELSE << >>]
               /\ burstEvals' = evalsBefore
               /\ handler' = "search:input"
               /\ UNCHANGED << displayed, searchResults, resultsOpen >>
     /\ UNCHANGED << dashboard, allPrices, allCategories, inflight, stats,
                     insights >>
     /\ UNCHANGED << alertVars, filterVars >>
     /\ UNCHANGED outsideVars

\* The quiescence window of the last input event expires; the timer, when one
\* is armed, fires and its callback runs
QuiescenceExpires ==
  /\ ~quiet
  /\ quiet' = TRUE
  /\ searchTimeout' = NoTimer
  /\ IF searchTimeout.armed
       THEN /\ burstEvals' = Append(burstEvals, TimerQuery)
            /\ handler' = "search:timer"
            /\ toasts' = << >>
            /\ IF TimerQuery = << >>
                 THEN /\ resultsOpen' = FALSE
                      /\ displayed' = DisplayPrices(allPrices, allCategories)
                      /\ UNCHANGED searchResults
                 ELSE /\ searchResults' =
                           SearchItems(dashboard, allPrices, TimerQuery)
                      /\ resultsOpen' = TRUE
                      /\ UNCHANGED displayed
       ELSE UNCHANGED << burstEvals, handler, toasts, displayed,
                         searchResults, resultsOpen >>
  /\ UNCHANGED << dashboard, allPrices, allCategories, inflight, stats,
                  insights, searchValue, burstQueries >>
  /\ UNCHANGED << alertVars, filterVars >>
  /\ UNCHANGED outsideVars

\* Texts typed into #globalSearch
SearchTexts ==
  { << >>, << " " >>, << "R", "I", "O" >>, << "s", "h" >>, << "i", "c" >>,
    << "Y", "a" >> }

\* The search scenarios: the initial load, input events, expiry of the
\* quiescence window, reloads
NextSearch ==
  \/ \E i \in 1..MaxInflight, o \in Outcomes : DeliverCategories(i, o)
  \/ \E i \in 1..MaxInflight, o \in Outcomes :
       \E body \in Bodies(SearchSnapshots, o) : DeliverPrices(i, o, body)
  \/ \E text \in SearchTexts : SearchInput(text)
  \/ QuiescenceExpires
  \/ Reload

SpecSearch == Init /\ [][NextSearch]_vars

(***************************************************************************)
(* The aggregator: the per-category statistics of the category insights    *)
(* modal (populateCategoryInsights).                                       *)
(***************************************************************************)
\* The statistics taken over every record, whatever its category
CategoryPrices_All(prices, categoryId) == prices

\* allPrices.filter(p => p.category_id === cat.id)
CategoryPrices(prices, categoryId) ==
  FilterIdx(prices, { k \in DOMAIN prices : prices[k].category_id = categoryId })

RECURSIVE MinPrice(_)
\* Math.min(...catPrices.map(p => p.price || 0)) of a non-empty array
MinPrice(s) ==
  IF Len(s) = 1 THEN PriceOrZero(s[1].price)
  ELSE Min(PriceOrZero(Head(s).price), MinPrice(Tail(s)))

RECURSIVE MaxPrice(_)
\* Math.max(...catPrices.map(p => p.price || 0)) of a non-empty array
MaxPrice(s) ==
  IF Len(s) = 1 THEN PriceOrZero(s[1].price)
  ELSE Max(PriceOrZero(Head(s).price), MaxPrice(Tail(s)))

\* parseFloat(x.toFixed(2)): the quotient rounded to hundredths
ToFixed2(r) == Ratio((200 * r.num + r.den) \div (2 * r.den), 100)

\* The statistics of one category: the fixed dashboard shows count, average,
\* minimum and maximum, the legacy one count and the average rounded to two
\* decimals
CategoryInsight(d, cat, prices) ==
  LET catPrices == CategoryPrices(prices, cat.id)
  IN IF d = "fixed"
       THEN [category |-> cat.id,
             count |-> Len(catPrices),
             avg |-> Average(catPrices),
             min |-> IF Len(catPrices) # 0 THEN MinPrice(catPrices) ELSE 0,
             max |-> IF Len(catPrices) # 0 THEN MaxPrice(catPrices) ELSE 0]
       ELSE [category |-> cat.id,
             count |-> Len(catPrices),
             avg |-> IF Len(catPrices) # 0 THEN ToFixed2(Average(catPrices))
                                           ELSE Ratio(0, 1)]

\* populateCategoryInsights(): one block per category, in the order of
\* allCategories (none: 'No category data available yet.')
PopulateCategoryInsights(d, cats, prices) ==
  [k \in DOMAIN cats |-> CategoryInsight(d, cats[k], prices)]

\* handleNavAction('insights') or handleNavAction('trends')
OpenInsights ==
  /\ insights' = PopulateCategoryInsights(dashboard, allCategories, allPrices)
  /\ handler' = "insights"
  /\ toasts' = << >>
  /\ UNCHANGED << dashboard, allPrices, allCategories, inflight, displayed,
                  stats >>
  /\ UNCHANGED << alertVars, filterVars, searchVars >>
  /\ UNCHANGED outsideVars

\* The aggregation scenarios: refreshes, openings of the insights modal,
\* reloads
NextAgg ==
  \/ \E i \in 1..MaxInflight, o \in Outcomes : DeliverCategories(i, o)
  \/ \E i \in 1..MaxInflight, o \in Outcomes :
       \E body \in Bodies(PriceSnapshots, o) : DeliverPrices(i, o, body)
  \/ SubmitPriceOk
  \/ OpenInsights
  \/ Reload

SpecAgg == Init /\ [][NextAgg]_vars


(***************************************************************************)
(* The statistics scenarios: refreshes over records that share a retailer, *)
(* and whose retailer or location is null or the empty string.             *)
(***************************************************************************)
StatsRecords ==
  { Rec(1, 1, sRice, Null, 1, sShop, sYaba),
    Rec(2, 1, sRice, Null, 3, sShop, << >>),
    Rec(3, 2, sOil, Null, 2, Null, sAkoka),
    Rec(4, 2, sOil, Null, 2, << >>, Null) }

StatsSnapshots == Snapshots(StatsRecords)

NextStats ==
  \/ \E i \in 1..MaxInflight, o \in Outcomes : DeliverCategories(i, o)
  \/ \E i \in 1..MaxInflight, o \in Outcomes :
       \E body \in Bodies(StatsSnapshots, o) : DeliverPrices(i, o, body)
  \/ SubmitPriceOk
  \/ Reload

SpecStats == Init /\ [][NextStats]_vars

(***************************************************************************)
(* A second dashboard open on the same localStorage.  It runs the same     *)
(* script; of its state only its own priceAlerts array matters to the      *)
(* first tab, through the 'priceAlerts' item both write.                   *)
(***************************************************************************)
\* The other tab loads the dashboard: let priceAlerts = JSON.parse(...)
OtherTabOpens ==
  /\ ~otherTab.open
  /\ otherTab' = [open |-> TRUE,
                  priceAlerts |-> JSONParse(StoredAlertsText(lsPriceAlerts))]
  /\ UNCHANGED << dashboard, allPrices, allCategories, inflight, displayed,
                  handler, toasts, stats, insights >>
  /\ UNCHANGED << alertVars, filterVars, searchVars, sessionVars, libraryVars >>
  /\ UNCHANGED latestLoaded

\* loadPrices of the other tab, from a 200 response on: checkPriceAlerts runs
\* over the other tab's rules and writes them to the shared item
OtherTabRefreshes(body) ==
  /\ otherTab.open
  /\ otherTab' = [otherTab EXCEPT
                    !.priceAlerts = CheckedAlerts(body, otherTab.priceAlerts)]
  /\ lsPriceAlerts' =
       PersistChecked(dashboard, body, otherTab.priceAlerts, lsPriceAlerts)
  /\ UNCHANGED << dashboard, allPrices, allCategories, inflight, displayed,
                  handler, toasts, stats, insights >>
  /\ UNCHANGED << priceAlerts, now, deletedIds >>
  /\ UNCHANGED << filterVars, searchVars, sessionVars, libraryVars >>
  /\ UNCHANGED latestLoaded

\* savePriceAlert of the other tab, with valid input, at clock value t
OtherTabSaves(nameText, thresholdText, t) ==
  /\ otherTab.open
  /\ AlertInputValid(dashboard, Trim(nameText), ParseFloat(thresholdText))
  /\ t >= now
  /\ t <= MaxNow
  /\ Len(otherTab.priceAlerts) < MaxAlerts
  /\ otherTab' = [otherTab EXCEPT
                    !.priceAlerts =
                       Append(@, [id |-> t, itemName |-> Trim(nameText),
                                  threshold |-> ParseFloat(thresholdText),
                                  triggered |-> FALSE])]
  /\ lsPriceAlerts' = SetItem(otherTab'.priceAlerts)
  /\ now' = t
  /\ deletedIds' = deletedIds \ { t }
  /\ UNCHANGED << dashboard, allPrices, allCategories, inflight, displayed,
                  handler, toasts, stats, insights, priceAlerts >>
  /\ UNCHANGED << filterVars, searchVars, sessionVars, libraryVars >>
  /\ UNCHANGED latestLoaded

\* Inputs of the two-tab scenarios
TabRecords == { Rec(1, 1, sRice, Null, 1, sShop, sYaba) }
TabSnapshots == Snapshots(TabRecords)
TabNameTexts == { srice }
TabThresholdTexts == { << "2" >> }

\* The other tab saves a rule, at some clock value
OtherTabSaveClick(nameText, thresholdText) ==
  \E t \in now..MaxNow : OtherTabSaves(nameText, thresholdText, t)

\* The two-tab scenarios: both tabs refresh and save, the first tab deletes
\* and reloads
NextTabs ==
  \/ \E i \in 1..MaxInflight, o \in Outcomes : DeliverCategories(i, o)
  \/ \E i \in 1..MaxInflight, o \in Outcomes :
       \E body \in Bodies(TabSnapshots, o) : DeliverPrices(i, o, body)
  \/ SubmitPriceOk
  \/ \E n \in TabNameTexts, th \in TabThresholdTexts : SaveAlertClick(n, th)
  \/ \E id \in 1..MaxNow : DeleteAlert(id)
  \/ Reload
  \/ OtherTabOpens
  \/ \E body \in TabSnapshots : OtherTabRefreshes(body)
  \/ \E n \in TabNameTexts, th \in TabThresholdTexts : OtherTabSaveClick(n, th)

SpecTabs == Init /\ [][NextTabs]_vars

(***************************************************************************)
(* The session: login, logout, the login page's auto-redirect and the      *)
(* admin dashboard's access guard.  Setting window.location.href asks for  *)
(* a navigation; the handler that set it runs on to its end.               *)
(***************************************************************************)
NoSession == [role |-> Absent, token |-> Absent]

\* getSession(), for the two items the guards read
GetSession(items) == [role |-> items.role, token |-> items.token]

\* saveSession({role, token}): an item is written only for a truthy value
SaveSession(items, role, token) ==
  [role |-> IF role # Absent THEN role ELSE items.role,
   token |-> IF token # Absent THEN token ELSE items.token]

\* clearSession(): removes the session keys
ClearSession(items) == NoSession

\* The redirect with the token not looked at
AutoRedirectIfLogged_RoleOnly(session) ==
  IF session.role # Absent
    THEN IF session.role = "admin" THEN "admin-dashboard" ELSE "user-dashboard"
    ELSE "none"

\* autoRedirectIfLogged(): the page it sends the browser to, if any
AutoRedirectIfLogged(session) ==
  IF session.role # Absent /\ session.token # Absent
    THEN IF session.role = "admin" THEN "admin-dashboard" ELSE "user-dashboard"
    ELSE "none"

\* The user dashboard's document is gone: its script state and DOM with it
DashboardGone ==
  /\ allPrices' = << >>
  /\ allCategories' = << >>
  /\ priceAlerts' = << >>
  /\ inflight' = << >>
  /\ displayed' = << >>
  /\ toasts' = << >>
  /\ stats' = NoStats
  /\ insights' = << >>
  /\ filterCategory' = << >>
  /\ filterMinPrice' = << >>
  /\ filterMaxPrice' = << >>
  /\ filterRetailer' = << >>
  /\ filterLocation' = << >>
  /\ searchValue' = << >>
  /\ searchTimeout' = NoTimer
  /\ searchResults' = << >>
  /\ resultsOpen' = FALSE
  /\ quiet' = TRUE
  /\ burstQueries' = << >>
  /\ burstEvals' = << >>

\* The login page loads in the tab: its DOMContentLoaded handler ends with
\* autoRedirectIfLogged()
LoginPageLoads ==
  /\ page' = "login"
  /\ navigateTo' = AutoRedirectIfLogged(GetSession(lsSession))
  /\ adminInflight' = << >>
  /\ handler' = "login:DOMContentLoaded"
  /\ DashboardGone
  /\ UNCHANGED << dashboard, lsPriceAlerts, now, deletedIds, lsSession,
                  otherTab, libraryVars >>
  /\ UNCHANGED latestLoaded

\* loginUser once POST /auth/login has succeeded: saveSession, then the
\* redirect to the user dashboard
LoginSucceeds(role, token) ==
  /\ page = "login"
  /\ lsSession' = SaveSession(lsSession, role, token)
  /\ navigateTo' = "user-dashboard"
  /\ handler' = "loginUser"
  /\ UNCHANGED << dashboard, allPrices, allCategories, inflight, displayed,
                  toasts, stats, insights, page, adminInflight, otherTab >>
  /\ UNCHANGED << alertVars, filterVars, searchVars, libraryVars >>
  /\ UNCHANGED latestLoaded

\* handleNavAction('logout') of the user dashboard, the confirm accepted
Logout ==
  /\ page = "user-dashboard"
  /\ lsPriceAlerts' = [present |-> FALSE, text |-> << >>]
  /\ lsSession' = NoSession
  /\ navigateTo' = "login"
  /\ handler' = "logout"
  /\ toasts' = << >>
  /\ UNCHANGED << dashboard, allPrices, allCategories, inflight, displayed,
                  stats, insights, priceAlerts, now, deletedIds, page,
                  adminInflight, otherTab >>
  /\ UNCHANGED << filterVars, searchVars, libraryVars >>
  /\ UNCHANGED latestLoaded

\* A call of clearSession()
ClearSessionCall ==
  /\ lsSession' = ClearSession(lsSession)
  /\ handler' = "clearSession"
  /\ UNCHANGED << dashboard, allPrices, allCategories, inflight, displayed,
                  toasts, stats, insights, page, navigateTo, adminInflight,
                  otherTab >>
  /\ UNCHANGED << alertVars, filterVars, searchVars, libraryVars >>
  /\ UNCHANGED latestLoaded

\* The fetches the admin loadInitialData starts:
\* Promise.all([loadCategories(), loadAllPrices()])
AdminInitialFetches == << [kind |-> "categories"], [kind |-> "prices"] >>

\* The admin dashboard loads in the tab: guardAccess, then the rest of the
\* DOMContentLoaded handler down to loadInitialData()
AdminDashboardLoads ==
  /\ page' = "admin-dashboard"
  /\ IF lsSession.role # "admin"
       THEN \* alert(...); localStorage.clear(); window.location.href = 'login.html'
            /\ lsSession' = NoSession
            /\ lsPriceAlerts' = [present |-> FALSE, text |-> << >>]
            /\ navigateTo' = "login"
       ELSE /\ navigateTo' = "none"
            /\ UNCHANGED << lsSession, lsPriceAlerts >>
  /\ adminInflight' = AdminInitialFetches
  /\ handler' = "admin:DOMContentLoaded"
  /\ DashboardGone
  /\ UNCHANGED << dashboard, now, deletedIds, otherTab, libraryVars >>
  /\ UNCHANGED latestLoaded

\* A response to a fetch of the admin dashboard: once categories and prices
\* are both in, loadPendingTable starts, then loadApprovedTable
AdminFetchReturns(i) ==
  /\ i \in DOMAIN adminInflight
  /\ LET kind == adminInflight[i].kind
         rest == RemoveAt(adminInflight, i)
     IN adminInflight' =
          IF kind \in { "categories", "prices" }
            THEN IF rest = << >> THEN << [kind |-> "pending"] >> ELSE rest
            ELSE IF kind = "pending" THEN << [kind |-> "approved"] >>
            ELSE rest
  /\ handler' = "admin:response"
  /\ UNCHANGED << dashboard, allPrices, allCategories, inflight, displayed,
                  toasts, stats, insights, page, navigateTo, lsSession,
                  otherTab >>
  /\ UNCHANGED << alertVars, filterVars, searchVars, libraryVars >>
  /\ UNCHANGED latestLoaded

\* What POST /auth/login answers with: user_role and login_token
LoginRoles == { "user", "admin", "vendor" }
LoginTokens == { "token", Absent }

\* A save of a rule on the user dashboard
SaveAlertOnDashboard(nameText, thresholdText) ==
  /\ page = "user-dashboard"
  /\ SaveAlertClick(nameText, thresholdText)

\* The session scenarios: the pages load, the user logs in and out, saves and
\* deletes rules, the dashboard refreshes
NextSession ==
  \/ LoginPageLoads
  \/ \E role \in LoginRoles, token \in LoginTokens : LoginSucceeds(role, token)
  \/ Reload
  \/ AdminDashboardLoads
  \/ \E i \in 1..MaxInflight : AdminFetchReturns(i)
  \/ Logout
  \/ ClearSessionCall
  \/ \E i \in 1..MaxInflight, o \in Outcomes :
       \E body \in Bodies(TabSnapshots, o) : DeliverPrices(i, o, body)
  \/ \E n \in TabNameTexts, th \in TabThresholdTexts : SaveAlertOnDashboard(n, th)
  \/ \E id \in 1..MaxNow : DeleteAlert(id)

SpecSession == Init /\ [][NextSession]_vars

(***************************************************************************)
(* Saving with malformed input: the texts a user can leave in              *)
(* #alertItemName and #alertThreshold when #alertSaveBtn is clicked.       *)
(***************************************************************************)
SaveNameTexts == { srice, << " " >>, << >> }
SaveThresholdTexts == { << "0" >>, << "2" >>, << "x" >>, << >> }

\* Saves with well-formed and malformed input, between refreshes, deletes
\* and reloads
NextSave ==
  \/ \E i \in 1..MaxInflight, o \in Outcomes : DeliverCategories(i, o)
  \/ \E i \in 1..MaxInflight, o \in Outcomes :
       \E body \in Bodies(TabSnapshots, o) : DeliverPrices(i, o, body)
  \/ \E n \in SaveNameTexts, th \in SaveThresholdTexts : SaveAlertClick(n, th)
  \/ \E id \in 1..MaxNow : DeleteAlert(id)
  \/ Reload

SpecSave == Init /\ [][NextSave]_vars

(***************************************************************************)
(* The durable store rejects a write: localStorage.setItem throws (the     *)
(* quota is exceeded, or storage is disabled) and leaves the item as it    *)
(* was.  The statements after the call are skipped.                        *)
(***************************************************************************)
\* checkPriceAlerts(prices) reaches its setItem call: always in the legacy
\* dashboard, only when a rule was triggered in the fixed one
CallsSetItem(d, prices, alerts) ==
  d = "legacy" \/ \E i \in DOMAIN alerts : Fires(prices, alerts[i])

\* loadPrices, from its 200 response on, when the setItem of checkPriceAlerts
\* throws: the rules are already flagged and their toasts shown; the
\* exception is caught by loadPrices, which logs it to the console, and in
\* the fixed dashboard empties allPrices and the table
DeliverPricesStorageFails(i, body) ==
  /\ i \in DOMAIN inflight
  /\ inflight[i].kind = "prices"
  /\ CallsSetItem(dashboard, body, priceAlerts)
  /\ inflight' = RemoveAt(inflight, i)
  /\ handler' = "loadPrices:storageerr"
  /\ stats' = UpdateStats(body)
  /\ priceAlerts' = CheckedAlerts(body, priceAlerts)
  /\ toasts' = AlertToasts(body, priceAlerts)
  /\ allPrices' = IF dashboard = "fixed" THEN << >> ELSE body
  /\ displayed' = DisplayedAfterCatch(dashboard,
                                      DisplayPrices(body, allCategories))
  /\ UNCHANGED << dashboard, allCategories, insights, lsPriceAlerts, now,
                  deletedIds >>
  /\ UNCHANGED << filterVars, searchVars >>
  /\ UNCHANGED << otherTab, sessionVars, libraryVars >>
  /\ latestLoaded' = (latestLoaded \/ StartedLast(inflight, i))

\* savePriceAlert when its setItem throws: the rule is already pushed; the
\* exception leaves the click handler uncaught, before the modal is closed
\* and the toast shown
SavePriceAlertStorageFails(nameText, thresholdText, t) ==
  LET itemName == Trim(nameText)
      threshold == ParseFloat(thresholdText)
  IN /\ t >= now
     /\ t <= MaxNow
     /\ AlertInputValid(dashboard, itemName, threshold)
     /\ Len(priceAlerts) < MaxAlerts
     /\ priceAlerts' =
          Append(priceAlerts,
                 [id |-> t, itemName |-> itemName,
                  threshold |-> threshold, triggered |-> FALSE])
     /\ now' = t
     /\ deletedIds' = deletedIds \ { t }
     /\ handler' = "savePriceAlert:storageerr"
     /\ toasts' = << >>
     /\ UNCHANGED << dashboard, allPrices, allCategories, inflight, displayed,
                     stats, insights, lsPriceAlerts >>
     /\ UNCHANGED << filterVars, searchVars >>
     /\ UNCHANGED outsideVars

\* A click on #alertSaveBtn whose write is rejected, at some clock value
SaveAlertClickStorageFails(nameText, thresholdText) ==
  \E t \in now..MaxNow : SavePriceAlertStorageFails(nameText, thresholdText, t)

\* Refreshes, saves and deletes with a store that may reject any write
NextQuota ==
  \/ \E i \in 1..MaxInflight, o \in Outcomes : DeliverCategories(i, o)
  \/ \E i \in 1..MaxInflight, o \in Outcomes :
       \E body \in Bodies(TabSnapshots, o) : DeliverPrices(i, o, body)
  \/ \E i \in 1..MaxInflight, body \in TabSnapshots :
       DeliverPricesStorageFails(i, body)
  \/ SubmitPriceOk
  \/ \E n \in TabNameTexts, th \in TabThresholdTexts : SaveAlertClick(n, th)
  \/ \E n \in TabNameTexts, th \in TabThresholdTexts :
       SaveAlertClickStorageFails(n, th)
  \/ \E id \in 1..MaxNow : DeleteAlert(id)
  \/ Reload

SpecQuota == Init /\ [][NextQuota]_vars

(***************************************************************************)
(* PriceUpdater: the WebSocket client of the live price feed.  sockets     *)
(* holds the state of every WebSocket the updater has created, in order of *)
(* creation; ws is the index of the one this.ws refers to, 0 for null;     *)
(* reconnectTimers holds the delays (ms) of the pending setTimeout calls.  *)
(* The handlers of a socket act on the updater, whichever socket this.ws   *)
(* refers to by then.                                                      *)
(***************************************************************************)
MaxSockets == 6     \* most WebSockets created in one run

maxReconnectAttempts == 5

\* The state of the pages
appVars == << dashboard, allPrices, allCategories, inflight, displayed,
              toasts, stats, insights, alertVars, filterVars, searchVars,
              otherTab, sessionVars, latestLoaded >>

\* What no method of PriceUpdater touches
pageVars == << appVars, safeFetchCall >>

RECURSIVE Pow2(_)
\* Math.pow(2, k)
Pow2(k) == IF k = 0 THEN 1 ELSE 2 * Pow2(k - 1)

\* Mutant of ReconnectDelay: the delay grows linearly
ReconnectDelay_Linear(attempts) == (attempts + 1) * 1000

\* The delay attemptReconnect computes
ReconnectDelay(attempts) == Pow2(attempts) * 1000

\* connect() can run to its end within the bound on sockets
CanConnect == ws # 0 \/ isConnecting \/ Len(sockets) < MaxSockets

\* connect(): returns at once when a socket is held or being opened, creates
\* a WebSocket otherwise
ConnectBody ==
  IF ws # 0 \/ isConnecting
    THEN UNCHANGED << sockets, ws, isConnecting >>
    ELSE /\ sockets' = Append(sockets, "connecting")
         /\ ws' = Len(sockets) + 1
         /\ isConnecting' = TRUE

\* attemptReconnect()
AttemptReconnect ==
  IF reconnectAttempts >= maxReconnectAttempts
    THEN UNCHANGED << reconnectAttempts, reconnectTimers >>
    ELSE /\ reconnectTimers' =
              Append(reconnectTimers, ReconnectDelay(reconnectAttempts))
         /\ reconnectAttempts' = reconnectAttempts + 1

\* A caller invokes connect()
Connect ==
  /\ CanConnect
  /\ handler' = "PriceUpdater.connect"
  /\ ConnectBody
  /\ disconnected' = FALSE
  /\ UNCHANGED << reconnectAttempts, reconnectTimers >>
  /\ UNCHANGED << pageVars, subscriberVars >>

\* ws.onopen of socket s
SocketOpens(s) ==
  /\ s \in DOMAIN sockets
  /\ sockets[s] = "connecting"
  /\ handler' = "PriceUpdater.onopen"
  /\ sockets' = [sockets EXCEPT ![s] = "open"]
  /\ reconnectAttempts' = 0
  /\ isConnecting' = FALSE
  /\ UNCHANGED << ws, reconnectTimers >>
  /\ UNCHANGED << pageVars, subscriberVars, disconnected >>

\* ws.onerror of socket s; the browser closes the socket afterwards
SocketErrors(s) ==
  /\ s \in DOMAIN sockets
  /\ sockets[s] \in { "connecting", "open" }
  /\ handler' = "PriceUpdater.onerror"
  /\ sockets' = [sockets EXCEPT ![s] = "failed"]
  /\ isConnecting' = FALSE
  /\ UNCHANGED << ws, reconnectAttempts, reconnectTimers >>
  /\ UNCHANGED << pageVars, subscriberVars, disconnected >>

\* ws.onclose of socket s
SocketCloses(s) ==
  /\ s \in DOMAIN sockets
  /\ sockets[s] # "closed"
  /\ handler' = "PriceUpdater.onclose"
  /\ sockets' = [sockets EXCEPT ![s] = "closed"]
  /\ ws' = 0
  /\ isConnecting' = FALSE
  /\ AttemptReconnect
  /\ UNCHANGED << pageVars, subscriberVars, disconnected >>

\* The callback attemptReconnect gave to setTimeout runs: connect()
ReconnectTimerFires(j) ==
  /\ j \in DOMAIN reconnectTimers
  /\ CanConnect
  /\ handler' = "PriceUpdater.reconnect"
  /\ reconnectTimers' = RemoveAt(reconnectTimers, j)
  /\ ConnectBody
  /\ UNCHANGED reconnectAttempts
  /\ UNCHANGED << pageVars, subscriberVars, disconnected >>

\* disconnect()
Disconnect ==
  /\ handler' = "PriceUpdater.disconnect"
  /\ IF ws # 0
       THEN /\ sockets' = [sockets EXCEPT ![ws] = "closing"]
            /\ ws' = 0
       ELSE UNCHANGED << sockets, ws >>
  /\ disconnected' = TRUE
  /\ UNCHANGED << isConnecting, reconnectAttempts, reconnectTimers >>
  /\ UNCHANGED << pageVars, subscriberVars >>

NextUpdater ==
  \/ Connect
  \/ \E s \in 1..MaxSockets : SocketOpens(s)
  \/ \E s \in 1..MaxSockets : SocketErrors(s)
  \/ \E s \in 1..MaxSockets : SocketCloses(s)
  \/ \E j \in 1..maxReconnectAttempts : ReconnectTimerFires(j)
  \/ Disconnect

SpecUpdater == Init /\ [][NextUpdater]_vars

(***************************************************************************)
(* PriceUpdater: subscriptions and the dispatch of a price update.  A Set  *)
(* of callbacks is the sequence of its members in insertion order, which   *)
(* is the order Set.prototype.forEach visits them in; forEach visits a     *)
(* member added during the loop and does not visit one deleted before its  *)
(* turn.  Callbacks are the caller's code: between two invocations they    *)
(* may subscribe and unsubscribe.                                          *)
(***************************************************************************)
MaxItem == 2        \* largest item id; item id 0 subscribes to every update

ItemIds == 0..MaxItem
Callbacks == { "A", "B" }

\* Map.prototype.has / set / delete
Has(map, k) == k \in DOMAIN map
MapSet(map, k, v) ==
  [x \in DOMAIN map \cup { k } |-> IF x = k THEN v ELSE map[x]]
MapDelete(map, k) == [x \in DOMAIN map \ { k } |-> map[x]]

\* Set.prototype.has / add / delete
SetHas(set, cb) == \E i \in DOMAIN set : set[i] = cb
SetAdd(set, cb) == IF SetHas(set, cb) THEN set ELSE Append(set, cb)
SetDelete(set, cb) == FilterIdx(set, { i \in DOMAIN set : set[i] # cb })

\* Mutant of Unvisited: the loop runs over the members the Set had when it
\* began
Unvisited_Copy(todo, cb) == todo

\* What a forEach in progress has yet to visit, once cb is deleted from its Set
Unvisited(todo, cb) == SetDelete(todo, cb)

\* No handlePriceUpdate is in progress
Idle == [phase |-> "idle", item_id |-> 0, key |-> 0, todo |-> << >>,
         live |-> FALSE]

\* The forEach over the Set of key k begins
LoopOver(phase, item_id, k) ==
  [phase |-> phase, item_id |-> item_id, key |-> k, todo |-> subscribers[k],
   live |-> TRUE]

\* The forEach in progress runs over the Set the map holds for key k
Iterating(k) == dispatch.phase # "idle" /\ dispatch.live /\ dispatch.key = k

\* The (item id, callback) pairs subscribed now
Subscribed(map) ==
  { p \in ItemIds \X Callbacks : Has(map, p[1]) /\ SetHas(map[p[1]], p[2]) }

\* subscribe(itemId, callback)
Subscribe(itemId, cb) ==
  LET old == IF Has(subscribers, itemId) THEN subscribers[itemId] ELSE << >>
  IN /\ handler' = "PriceUpdater.subscribe"
     /\ subscribers' = MapSet(subscribers, itemId, SetAdd(old, cb))
     /\ dispatch' = IF Iterating(itemId) /\ ~SetHas(old, cb)
                      THEN [dispatch EXCEPT !.todo = Append(@, cb)]
                      ELSE dispatch
     /\ cancelled' = cancelled \ { << itemId, cb >> }
     /\ invoked' = << >>
     /\ UNCHANGED << pageVars, updaterVars >>

\* The function subscribe(itemId, callback) returned is called; the caller
\* holds it from the subscription on, and may call it more than once
Unsubscribe(itemId, cb) ==
  /\ << itemId, cb >> \in Subscribed(subscribers) \cup cancelled
  /\ handler' = "PriceUpdater.unsubscribe"
  /\ IF Has(subscribers, itemId)
       THEN LET subs == SetDelete(subscribers[itemId], cb)
            IN /\ subscribers' = IF subs = << >>
                                   THEN MapDelete(subscribers, itemId)
                                   ELSE MapSet(subscribers, itemId, subs)
               /\ dispatch' = IF Iterating(itemId)
                                THEN [dispatch EXCEPT
                                        !.todo = Unvisited(@, cb),
                                        !.live = (subs # << >>)]
                                ELSE dispatch
       ELSE UNCHANGED << subscribers, dispatch >>
  /\ cancelled' = cancelled \cup { << itemId, cb >> }
  /\ invoked' = << >>
  /\ UNCHANGED << pageVars, updaterVars >>

\* handlePriceUpdate(data) with data.item_id = item_id, up to its first
\* callback
HandlePriceUpdate(item_id) ==
  /\ dispatch.phase = "idle"
  /\ handler' = "PriceUpdater.handlePriceUpdate"
  /\ dispatch' = IF Has(subscribers, item_id)
                   THEN LoopOver("item", item_id, item_id)
                   ELSE IF Has(subscribers, 0)
                          THEN LoopOver("global", item_id, 0)
                          ELSE Idle
  /\ invoked' = << >>
  /\ UNCHANGED << subscribers, cancelled >>
  /\ UNCHANGED << pageVars, updaterVars >>

\* The forEach in progress calls the next callback
CallbackInvoked ==
  /\ dispatch.phase # "idle"
  /\ dispatch.todo # << >>
  /\ handler' = "PriceUpdater.callback"
  /\ invoked' = << [cb |-> Head(dispatch.todo), itemId |-> dispatch.item_id,
                    key |-> dispatch.key] >>
  /\ dispatch' = [dispatch EXCEPT !.todo = Tail(@)]
  /\ UNCHANGED << subscribers, cancelled >>
  /\ UNCHANGED << pageVars, updaterVars >>

\* The forEach in progress has visited every member: handlePriceUpdate goes
\* on to the global subscribers, or returns
LoopEnds ==
  /\ dispatch.phase # "idle"
  /\ dispatch.todo = << >>
  /\ handler' = "PriceUpdater.forEach:end"
  /\ dispatch' = IF dispatch.phase = "item" /\ Has(subscribers, 0)
                   THEN LoopOver("global", dispatch.item_id, 0)
                   ELSE Idle
  /\ invoked' = << >>
  /\ UNCHANGED << subscribers, cancelled >>
  /\ UNCHANGED << pageVars, updaterVars >>

NextSubscribe ==
  \/ \E i \in ItemIds, cb \in Callbacks : Subscribe(i, cb)
  \/ \E i \in ItemIds, cb \in Callbacks : Unsubscribe(i, cb)
  \/ \E i \in ItemIds : HandlePriceUpdate(i)
  \/ CallbackInvoked
  \/ LoopEnds

SpecSubscribe == Init /\ [][NextSubscribe]_vars

(***************************************************************************)
(* safeFetch(url, options, retries): fetch with retries.  The call is at   *)
(* "fetching" while it awaits fetch and the body, at "waiting" while it    *)
(* awaits the timer of the backoff, and "done" once its promise settled.   *)
(***************************************************************************)
MaxRetries == 3     \* largest value of the parameter retries

\* How an attempt ends: a 200 with a JSON body, a non-OK response, a rejected
\* fetch, or a 200 whose body is not JSON (response.json() rejects)
FetchOutcomes == { "ok", "httperr", "neterr", "badjson" }

\* Mutant of RetryDelay: the same delay after every attempt
RetryDelay_Constant(i) == 1000

\* The delay before the retry that follows the failed attempt i
RetryDelay(i) == Pow2(i) * 1000

\* The loop test of safeFetch with counter i, and what follows: the next
\* fetch, or the end of the function (which resolves to undefined)
LoopTest(call, i) ==
  IF i < call.retries
    THEN [call EXCEPT !.pc = "fetching", !.i = i, !.attempts = @ + 1]
    ELSE [call EXCEPT !.pc = "done", !.i = i,
                      !.result = << [kind |-> "undefined"] >>]

\* safeFetch(url, options, retries) is called, once no call is in progress
CallSafeFetch(retries) ==
  /\ safeFetchCall.pc \in { "idle", "done" }
  /\ handler' = "safeFetch"
  /\ safeFetchCall' =
       LoopTest([pc |-> "idle", retries |-> retries, i |-> 0, attempts |-> 0,
                 failures |-> << >>, waits |-> << >>, result |-> << >>], 0)
  /\ UNCHANGED << appVars, updaterVars, subscriberVars >>

\* The attempt in progress ends: safeFetch returns the body, or catches the
\* error and either rethrows it or starts the timer of the backoff; failures
\* holds the errors caught so far, one per failed attempt
FetchSettles(outcome) ==
  /\ safeFetchCall.pc = "fetching"
  /\ handler' = "safeFetch:settled"
  /\ safeFetchCall' =
       IF outcome = "ok"
         THEN [safeFetchCall EXCEPT
                 !.pc = "done",
                 !.result = << [kind |-> "returns", attempt |-> safeFetchCall.i] >>]
         ELSE IF safeFetchCall.i = safeFetchCall.retries - 1
                THEN [safeFetchCall EXCEPT
                        !.pc = "done",
                        !.failures = Append(@, outcome),
                        !.result = << [kind |-> "throws", error |-> outcome,
                                       attempt |-> safeFetchCall.i] >>]
                ELSE [safeFetchCall EXCEPT
                        !.pc = "waiting",
                        !.failures = Append(@, outcome),
                        !.waits = Append(@, RetryDelay(safeFetchCall.i))]
  /\ UNCHANGED << appVars, updaterVars, subscriberVars >>

\* The attempt in progress ends, in one of the ways it can
FetchSettlesSomehow == \E outcome \in FetchOutcomes : FetchSettles(outcome)

\* The timer of the backoff fires: i++ and the loop test
BackoffElapses ==
  /\ safeFetchCall.pc = "waiting"
  /\ handler' = "safeFetch:retry"
  /\ safeFetchCall' = LoopTest(safeFetchCall, safeFetchCall.i + 1)
  /\ UNCHANGED << appVars, updaterVars, subscriberVars >>

NextSafeFetch ==
  \/ \E retries \in 0..MaxRetries : CallSafeFetch(retries)
  \/ FetchSettlesSomehow
  \/ BackoffElapses

\* Every fetch settles and every timer fires
SpecSafeFetch ==
  /\ Init
  /\ [][NextSafeFetch]_vars
  /\ WF_vars(FetchSettlesSomehow)
  /\ WF_vars(BackoffElapses)

(***************************************************************************)
(* Navigation: the browser follows window.location.href to the page it     *)
(* names, whose DOMContentLoaded handler runs its guard.  The user opens   *)
(* pages, logs in, registers and logs out once the page has settled.       *)
(***************************************************************************)
\* No navigation is pending
Settled == navigateTo = "none"

\* The browser loads the page window.location.href was set to
FollowRedirect ==
  IF navigateTo = "login" THEN LoginPageLoads
  ELSE IF navigateTo = "admin-dashboard" THEN AdminDashboardLoads
  ELSE navigateTo = "user-dashboard" /\ Reload

\* The user opens a page by its address
OpenLoginPage == Settled /\ LoginPageLoads
OpenUserDashboard == Settled /\ Reload
OpenAdminDashboard == Settled /\ AdminDashboardLoads

\* loginUser succeeds on the settled login page
UserLogsIn(role, token) == Settled /\ LoginSucceeds(role, token)

\* registerUser once POST /auth/register has succeeded: the role and token of
\* the answer are stored, then the redirect to the user dashboard
RegisterSucceeds(role) ==
  /\ Settled
  /\ page = "login"
  /\ lsSession' = [role |-> role, token |-> "token"]
  /\ navigateTo' = "user-dashboard"
  /\ handler' = "registerUser"
  /\ UNCHANGED << dashboard, allPrices, allCategories, inflight, displayed,
                  toasts, stats, insights, page, adminInflight, otherTab >>
  /\ UNCHANGED << alertVars, filterVars, searchVars, libraryVars >>
  /\ UNCHANGED latestLoaded

\* The user logs out of the settled user dashboard
UserLogsOut == Settled /\ Logout

NextRedirect ==
  \/ FollowRedirect
  \/ OpenLoginPage
  \/ OpenUserDashboard
  \/ OpenAdminDashboard
  \/ \E role \in LoginRoles, token \in LoginTokens : UserLogsIn(role, token)
  \/ \E role \in LoginRoles : RegisterSucceeds(role)
  \/ UserLogsOut
  \/ \E i \in 1..MaxInflight : AdminFetchReturns(i)
  \/ \E i \in 1..MaxInflight, o \in Outcomes : DeliverCategories(i, o)

\* The browser does follow a pending navigation
SpecRedirect == Init /\ [][NextRedirect]_vars /\ WF_vars(FollowRedirect)

(***************************************************************************)
(* Properties of the alert evaluator (checked under Spec).                 *)
(***************************************************************************)
\* The step ran checkPriceAlerts: loadPrices got an array to go on with
Evaluated(d, h) ==
  h = "loadPrices:ok" \/ (d = "legacy" /\ h = "loadPrices:httperr")

\* Two strings are equal ignoring case
EqualIgnoringCase(a, b) ==
  /\ a # Null
  /\ b # Null
  /\ Len(a) = Len(b)
  /\ \A k \in DOMAIN a : LowerChar(a[k]) = LowerChar(b[k])

\* The snapshot holds a record that qualifies for the rule
Qualifies(snapshot, rule) ==
  \E k \in DOMAIN snapshot :
    /\ EqualIgnoringCase(snapshot[k].name, rule.itemName)
    /\ snapshot[k].price <= rule.threshold

\* How many of the notifications just emitted are price alerts of rule i
AlertNotices(notices, i) ==
  Cardinality({ k \in DOMAIN notices :
                  notices[k].kind = "price-alert" /\ notices[k].rule = i })

\* C1: in every alert evaluation, an untriggered rule for which the snapshot
\* holds a qualifying record becomes triggered with exactly one notification,
\* and a rule that was already triggered is left unchanged and gets none,
\* whatever the snapshot.
C1_TriggeredOnceNotifiedOnce ==
  [][Evaluated(dashboard, handler') =>
       /\ DOMAIN priceAlerts' = DOMAIN priceAlerts
       /\ \A i \in DOMAIN priceAlerts :
            /\ priceAlerts[i].triggered =>
                 /\ priceAlerts'[i] = priceAlerts[i]
                 /\ AlertNotices(toasts', i) = 0
            /\ (~priceAlerts[i].triggered /\ Qualifies(allPrices', priceAlerts[i])) =>
                 /\ priceAlerts'[i] = [priceAlerts[i] EXCEPT !.triggered = TRUE]
                 /\ AlertNotices(toasts', i) = 1]_vars

\* C1 witness: an evaluation has just run over a snapshot that qualifies for a
\* rule triggered earlier, and emitted nothing for it.
C1_Witness ==
  /\ Evaluated(dashboard, handler)
  /\ \E i \in DOMAIN priceAlerts :
       /\ priceAlerts[i].triggered
       /\ Qualifies(allPrices, priceAlerts[i])
       /\ AlertNotices(toasts, i) = 0

\* The rules held in localStorage
StoredAlerts == JSONParse(StoredAlertsText(lsPriceAlerts))

\* From rules a to rules b no triggered flag is reset and no triggered rule is
\* lost: each triggered rule is still there, in place and unchanged
KeepsTriggered(a, b) ==
  \A i \in DOMAIN a :
    a[i].triggered => (i \in DOMAIN b /\ b[i] = a[i])

\* From rules a to rules b one id was deleted: every rule left is a rule of a,
\* unchanged, and the rules that are gone all have the deleted id
DeletedOneId(a, b) ==
  /\ \A j \in DOMAIN b : \E i \in DOMAIN a : b[j] = a[i]
  /\ \E i \in DOMAIN a :
       /\ ~a[i].triggered
       /\ \A j \in DOMAIN b : b[j].id # a[i].id
       /\ \A k \in DOMAIN a :
            a[k].id # a[i].id => \E j \in DOMAIN b : b[j] = a[k]

\* C2: over save, evaluate, delete and reload steps the triggered flag of a
\* rule, in memory and in localStorage, never goes from true to false, and a
\* triggered rule leaves the rule set only by a delete of its id.
C2_TriggeredIsMonotonic ==
  [][IF handler' = "deleteAlert"
       THEN /\ DeletedOneId(priceAlerts, priceAlerts')
            /\ DeletedOneId(StoredAlerts, StoredAlerts')
       ELSE /\ KeepsTriggered(priceAlerts, priceAlerts')
            /\ KeepsTriggered(StoredAlerts, StoredAlerts')]_vars

\* C2 witness: the page has just been reloaded and a rule triggered before the
\* reload is triggered in memory and in localStorage.
C2_Witness ==
  /\ handler = "DOMContentLoaded"
  /\ \E i \in DOMAIN priceAlerts :
       /\ priceAlerts[i].triggered
       /\ i \in DOMAIN StoredAlerts
       /\ StoredAlerts[i].triggered

\* C3: in one evaluation over snapshot S the rules that become triggered are
\* exactly the untriggered rules for which S holds a record whose name equals
\* the rule's itemName ignoring case and whose price is at most the threshold.
C3_TriggersExactlyTheQualifying ==
  [][Evaluated(dashboard, handler') =>
       { i \in DOMAIN priceAlerts :
           ~priceAlerts[i].triggered /\ priceAlerts'[i].triggered }
       = { i \in DOMAIN priceAlerts :
             ~priceAlerts[i].triggered /\ Qualifies(allPrices', priceAlerts[i]) }]_vars

\* C3 witness: an evaluation has just triggered a rule whose itemName differs
\* from the record's name only by case, and left untriggered a rule whose
\* itemName is only a substring of that name.
C3_Witness ==
  /\ Evaluated(dashboard, handler)
  /\ \E i, j \in DOMAIN priceAlerts :
       /\ priceAlerts[i].triggered
       /\ AlertNotices(toasts, i) = 1
       /\ priceAlerts[i].itemName = srice
       /\ ~priceAlerts[j].triggered
       /\ priceAlerts[j].itemName = sRi
       /\ \E k \in DOMAIN allPrices :
            /\ allPrices[k].name = sRice
            /\ allPrices[k].price <= priceAlerts[j].threshold

(***************************************************************************)
(* Properties of the record store (checked under Spec).                    *)
(***************************************************************************)
\* C4: a price refresh that fails (network error, non-OK response, parse
\* error) leaves the snapshot as it was before the refresh.
C4_FailedRefreshKeepsSnapshot ==
  [][handler' \in { "loadPrices:httperr", "loadPrices:neterr" } =>
       allPrices' = allPrices]_vars

\* C5: a rendered record whose category_id is among the refreshed categories
\* is never shown as 'Unknown'.
C5_KnownCategoryNeverUnknown ==
  \A k \in DOMAIN displayed :
    (\E c \in DOMAIN allCategories :
       allCategories[c].id = displayed[k].rec.category_id)
      => displayed[k].label # sUnknown

(***************************************************************************)
(* Properties of the filter engine (checked under SpecFilter).             *)
(***************************************************************************)
\* The bound a price input gives: the default when it is empty
GivenBound(text, dflt) == IF text = << >> THEN dflt ELSE ParseFloat(text)

\* The field contains the text ignoring case, or the text is empty
ContainsIgnoringCase(field, text) ==
  \/ text = << >>
  \/ /\ field # Null
     /\ \E k \in 0..(Len(field) - Len(text)) :
          EqualIgnoringCase(SubSeq(field, k + 1, k + Len(text)), text)

\* The record meets the four criteria
MeetsCriteria(p, categoryText, minText, maxText, retailerText, locationText) ==
  /\ categoryText = << >> \/ String(p.category_id) = categoryText
  /\ p.price # NullPrice
  /\ p.price >= GivenBound(minText, 0)
  /\ maxText = << >> \/ p.price <= GivenBound(maxText, 0)
  /\ ContainsIgnoringCase(p.retailer, retailerText)
  /\ ContainsIgnoringCase(p.location, locationText)

\* C6: applyFilters displays a record of the snapshot if and only if the
\* category is unset or equal to its category_id, its price lies between the
\* given minimum (0 when not given) and the given maximum (no limit when not
\* given), and the retailer and location texts are empty or contained in its
\* retailer and location ignoring case.
C6_DisplaysExactlyTheMatching ==
  [][handler' = "applyFilters" =>
       { displayed'[k].rec : k \in DOMAIN displayed' }
       = { p \in { allPrices[k] : k \in DOMAIN allPrices } :
             MeetsCriteria(p, filterCategory', filterMinPrice',
                           filterMaxPrice', filterRetailer',
                           filterLocation') }]_vars

\* r holds elements of s, in the order they have in s
IsSubsequence(r, s) ==
  \E f \in [DOMAIN r -> DOMAIN s] :
    /\ \A i, j \in DOMAIN r : i < j => f[i] < f[j]
    /\ \A i \in DOMAIN r : r[i] = s[f[i]]

\* C7: the records applyFilters displays are a subsequence of the snapshot in
\* snapshot order; applyFilters changes neither the snapshot nor the alert
\* rules (in memory or stored); run again over the same snapshot and inputs
\* it displays the same rows.
C7_FilteringIsPure ==
  [][handler' = "applyFilters" =>
       /\ IsSubsequence(Recs(displayed'), allPrices)
       /\ allPrices' = allPrices
       /\ priceAlerts' = priceAlerts
       /\ lsPriceAlerts' = lsPriceAlerts
       /\ (handler = "applyFilters" /\ filterVars' = filterVars)
            => displayed' = displayed]_vars

\* C7 witness: applyFilters has just displayed two records of a snapshot
\* under a filter that is set, with an alert rule held in memory.
C7_Witness ==
  /\ handler = "applyFilters"
  /\ filterVars # << << >>, << >>, << >>, << >>, << >> >>
  /\ Len(allPrices) = 2
  /\ Len(displayed) = 2
  /\ priceAlerts # << >>

(***************************************************************************)
(* Properties of the global search (checked under SpecSearch).             *)
(***************************************************************************)
\* The step evaluated a search query
SearchEvaluated(h) == h \in { "search:cleared", "search:timer" }

\* The query is contained, ignoring case, in one of the four searched fields
InSearchedField(p, q) ==
  \E field \in { p.name, p.retailer, p.location, p.brand } :
    ContainsIgnoringCase(field, q)

\* C8: an evaluation of a non-empty query lists a record of the snapshot if
\* and only if the query is contained, ignoring case, in its name, retailer,
\* location or brand; an evaluation of an empty or whitespace-only query
\* displays the full snapshot.
C8_SearchMatchesFourFields ==
  [][SearchEvaluated(handler') =>
       IF Trim(searchValue') = << >>
         THEN Recs(displayed') = allPrices
         ELSE { searchResults'[k] : k \in DOMAIN searchResults' }
              = { p \in { allPrices[k] : k \in DOMAIN allPrices } :
                    InSearchedField(p, Trim(searchValue')) }]_vars

\* C9: once the quiescence window after a burst of input events has expired,
\* exactly one search evaluation has run for the burst, and it was for the
\* query of the burst's last input event.
C9_OneEvaluationPerBurst ==
  (quiet /\ burstQueries # << >>)
    => burstEvals = << burstQueries[Len(burstQueries)] >>

(***************************************************************************)
(* Properties of the aggregator (checked under SpecAgg).                   *)
(***************************************************************************)
\* The positions of the snapshot's records of a category
OfCategory(categoryId) ==
  { i \in DOMAIN allPrices : allPrices[i].category_id = categoryId }

RECURSIVE PriceSum(_)
\* The sum of the prices of the records at a set of positions
PriceSum(S) ==
  IF S = { } THEN 0
  ELSE LET i == CHOOSE j \in S : TRUE
       IN allPrices[i].price + PriceSum(S \ { i })

\* The statistics are the count, mean, minimum and maximum of the prices of
\* the records at the positions S, and all 0 when S is empty
IsStatsOf(row, S) ==
  /\ row.count = Cardinality(S)
  /\ row.avg.den > 0
  /\ IF S = { }
       THEN row.avg.num = 0 /\ row.min = 0 /\ row.max = 0
       ELSE /\ row.avg.num * Cardinality(S) = row.avg.den * PriceSum(S)
            /\ \E i \in S : row.min = allPrices[i].price
            /\ \A i \in S : row.min <= allPrices[i].price
            /\ \E i \in S : row.max = allPrices[i].price
            /\ \A i \in S : row.max >= allPrices[i].price

IsPresent(value) == value # Null /\ value # << >>

\* C11: after every updateStats, the distinct-retailer and distinct-location
\* counts are the numbers of distinct retailer and location values of the
\* snapshot that are neither null nor the empty string.
C11_DistinctCounts ==
  Evaluated(dashboard, handler) =>
    /\ stats.retailers =
         Cardinality({ r \in { allPrices[k].retailer : k \in DOMAIN allPrices } :
                         IsPresent(r) })
    /\ stats.locations =
         Cardinality({ l \in { allPrices[k].location : k \in DOMAIN allPrices } :
                         IsPresent(l) })

\* C11 witness: updateStats has just run over two records of one retailer,
\* one of them with an empty location: one retailer and one location counted.
C11_Witness ==
  /\ Evaluated(dashboard, handler)
  /\ Len(allPrices) = 2
  /\ allPrices[1].retailer = allPrices[2].retailer
  /\ IsPresent(allPrices[1].retailer)
  /\ \E k \in DOMAIN allPrices : allPrices[k].location = << >>
  /\ stats.retailers = 1
  /\ stats.locations = 1

(***************************************************************************)
(* Properties of the rule lifecycle with a second tab (checked under       *)
(* SpecTabs).                                                              *)
(***************************************************************************)
\* The ids of the rules of an array
IdsOf(alerts) == { alerts[i].id : i \in DOMAIN alerts }

\* C12: a rule the user has deleted (and not saved again) is neither in the
\* in-memory rule set nor in localStorage, whatever was done since: saves of
\* other rules, evaluations, refreshes, reloads, writes of another open
\* dashboard.
C12_DeletedNeverReappears ==
  /\ IdsOf(priceAlerts) \cap deletedIds = { }
  /\ IdsOf(StoredAlerts) \cap deletedIds = { }

(***************************************************************************)
(* Properties of the session (checked under SpecSession).                  *)
(***************************************************************************)
\* C13: a rule leaves localStorage only by the user's delete of that rule:
\* no other step (logout, an access guard, clearSession, a refresh, an
\* evaluation) removes a persisted rule.
C13_RemovedOnlyByDelete ==
  [][\A id \in IdsOf(StoredAlerts) \ IdsOf(StoredAlerts') :
       handler' = "deleteAlert" /\ id \in deletedIds']_vars

\* C18: when the admin dashboard loads and the stored role is not 'admin',
\* the stored session is cleared, the browser is sent to the login page, and
\* no admin fetch is started.
C18_AdminGuardStartsNothing ==
  [][(handler' = "admin:DOMContentLoaded" /\ lsSession.role # "admin") =>
       /\ lsSession' = NoSession
       /\ navigateTo' = "login"
       /\ adminInflight' = << >>]_vars

\* C19: when the login page loads, autoRedirectIfLogged navigates if and only
\* if the stored session has a role and a token, to the admin dashboard for
\* the role 'admin' and to the user dashboard for any other role; in every
\* case it leaves the session as it was.
C19_AutoRedirect ==
  [][handler' = "login:DOMContentLoaded" =>
       /\ lsSession' = lsSession
       /\ (lsSession.role = Absent \/ lsSession.token = Absent)
            => navigateTo' = "none"
       /\ (lsSession.role # Absent /\ lsSession.token # Absent)
            => navigateTo' = IF lsSession.role = "admin"
                               THEN "admin-dashboard" ELSE "user-dashboard"]_vars

\* C19 witness: the login page has just loaded over a session with a role and
\* no token, and asked for no navigation.
C19_Witness ==
  /\ handler = "login:DOMContentLoaded"
  /\ lsSession.role # Absent
  /\ lsSession.token = Absent
  /\ navigateTo = "none"

(***************************************************************************)
(* Validation of the alert form (checked under SpecSave).                  *)
(***************************************************************************)
\* The rule a save has just appended is well formed: a non-empty item name
\* and a threshold that is a positive number
WellFormedRule(a) ==
  /\ a.itemName # << >>
  /\ a.threshold # NaN
  /\ a.threshold > 0

\* C14: a save with malformed input (empty item name, non-numeric threshold
\* or a threshold that is not a positive number) is rejected with a
\* user-visible message and changes neither the rules in memory nor the
\* persisted rules; so a save that is not rejected has appended a well-formed
\* rule.
C14_MalformedSaveRejected ==
  [][/\ handler' = "savePriceAlert:rejected" =>
          /\ toasts' # << >>
          /\ priceAlerts' = priceAlerts
          /\ lsPriceAlerts' = lsPriceAlerts
     /\ handler' = "savePriceAlert" =>
          /\ priceAlerts' # << >>
          /\ WellFormedRule(priceAlerts'[Len(priceAlerts')])]_vars

(***************************************************************************)
(* Persistence failures (checked under SpecQuota).                         *)
(***************************************************************************)
\* The toasts hold a notification of a failure
ReportsFailure(ts) == \E k \in DOMAIN ts : ts[k].kind = "error"

\* C15: when the store rejects the write that persists the rules after an
\* evaluation, every rule that matched the loaded snapshot is triggered in
\* memory, the failure is reported to the user, and the refresh still ends
\* with the loaded snapshot in place and displayed.
C15_StorageFailureNotFatal ==
  [][handler' = "loadPrices:storageerr" =>
       \E body \in TabSnapshots :
         /\ stats' = UpdateStats(body)
         /\ \A k \in DOMAIN priceAlerts :
              Qualifies(body, priceAlerts[k]) => priceAlerts'[k].triggered
         /\ ReportsFailure(toasts')
         /\ allPrices' = body
         /\ displayed' = DisplayPrices(body, allCategories)]_vars

\* C16: after every alert evaluation that completes without a storage
\* failure, and after every successful save and delete of a rule, the rule
\* array in the durable store equals the rules in memory, triggered flags
\* included.
C16_StoreEqualsMemory ==
  [][(\/ Evaluated(dashboard, handler')
      \/ handler' = "savePriceAlert"
      \/ handler' = "deleteAlert") => StoredAlerts' = priceAlerts']_vars

(***************************************************************************)
(* Failed refreshes (checked under Spec).                                  *)
(***************************************************************************)
\* The step ended a refresh of prices or categories that failed: the
\* response was not OK, or the fetch or the JSON parsing threw
RefreshFailed(h) ==
  h \in { "loadPrices:httperr", "loadPrices:neterr", "loadCategories:failed" }

\* C17: every failed refresh of prices or categories is surfaced to the user
\* by a notification, and leaves the dashboard running on its page.
C17_FailedRefreshIsNotified ==
  [][RefreshFailed(handler') =>
       /\ ReportsFailure(toasts')
       /\ page' = page
       /\ navigateTo' = navigateTo]_vars

(***************************************************************************)
(* The reconnection of PriceUpdater (checked under SpecUpdater).           *)
(***************************************************************************)
\* The delays (ms) of the reconnect attempts 0, 1, 2, 3, 4: 2^k seconds
BackoffSchedule == << 1000, 2000, 4000, 8000, 16000 >>

\* C20: PriceUpdater reconnects with exponential backoff and a bound.  When
\* a connection closes with reconnectAttempts = k below the bound of 5, one
\* reconnect is scheduled 2^k seconds later and reconnectAttempts becomes
\* k + 1; at the bound nothing is scheduled; reconnectAttempts never exceeds
\* 5; a successful open resets it to 0; and no other step schedules a
\* reconnect or changes the count.
C20_BoundedExponentialBackoff ==
  [][/\ reconnectAttempts' <= Len(BackoffSchedule)
     /\ handler' = "PriceUpdater.onclose" =>
          IF reconnectAttempts < Len(BackoffSchedule)
            THEN /\ reconnectTimers' =
                      Append(reconnectTimers,
                             BackoffSchedule[reconnectAttempts + 1])
                 /\ reconnectAttempts' = reconnectAttempts + 1
            ELSE /\ reconnectTimers' = reconnectTimers
                 /\ reconnectAttempts' = reconnectAttempts
     /\ handler' = "PriceUpdater.onopen" =>
          /\ reconnectAttempts' = 0
          /\ reconnectTimers' = reconnectTimers
     /\ handler' \notin { "PriceUpdater.onclose", "PriceUpdater.onopen" } =>
          /\ reconnectAttempts' = reconnectAttempts
          /\ Len(reconnectTimers') <= Len(reconnectTimers)]_vars

\* Five closes in a row without an open used up the attempts, the last
\* reconnect ran, and the close of its socket scheduled nothing
C20_Witness ==
  /\ handler = "PriceUpdater.onclose"
  /\ reconnectAttempts = maxReconnectAttempts
  /\ reconnectTimers = << >>
  /\ Len(sockets) = MaxSockets
  /\ \A s \in DOMAIN sockets : sockets[s] = "closed"

(***************************************************************************)
(* Subscriptions of PriceUpdater (checked under SpecSubscribe).            *)
(***************************************************************************)
\* An unsubscribe step removed at most one subscription, the one it was
\* called for, and added none
RemovesOnlyItsOwn ==
  /\ Subscribed(subscribers') \subseteq Subscribed(subscribers)
  /\ Cardinality(Subscribed(subscribers) \ Subscribed(subscribers')) <= 1
  /\ Subscribed(subscribers) \ Subscribed(subscribers') \subseteq cancelled'
  /\ \A k \in DOMAIN subscribers' :
       IsSubsequence(subscribers'[k], subscribers[k])

\* The map holds no item key with an empty callback set
NoEmptySet(map) == \A k \in DOMAIN map : map[k] # << >>

\* C21 as stated: once the unsubscribe function of (itemId, callback) was
\* called, the callback is never invoked again for an update of that item;
\* an unsubscribe leaves the other subscriptions as they were; and the map
\* never keeps an item key with an empty set.
C21_NeverInvokedForItem ==
  [][/\ handler' = "PriceUpdater.callback" =>
          << invoked'[1].itemId, invoked'[1].cb >> \notin cancelled'
     /\ handler' = "PriceUpdater.unsubscribe" => RemovesOnlyItsOwn
     /\ NoEmptySet(subscribers')]_vars

\* C21 amended: once the unsubscribe function of (itemId, callback) was
\* called, the callback is never invoked again through its subscription to
\* that item id, not even by a dispatch that was in progress; a callback
\* is invoked for an update only as a subscriber of the update's item or of
\* item id 0, so one that is also subscribed under 0 still receives the
\* updates of every item; an unsubscribe leaves the other subscriptions as
\* they were; and the map never keeps an item key with an empty set.
C21_NeverInvokedThroughSubscription ==
  [][/\ handler' = "PriceUpdater.callback" =>
          /\ << invoked'[1].key, invoked'[1].cb >> \notin cancelled'
          /\ invoked'[1].key \in { invoked'[1].itemId, 0 }
     /\ handler' = "PriceUpdater.unsubscribe" => RemovesOnlyItsOwn
     /\ NoEmptySet(subscribers')]_vars

\* B is called for an update of item 1 after A was unsubscribed from item 1,
\* while A is still subscribed to every update
C21_Witness ==
  /\ handler = "PriceUpdater.callback"
  /\ invoked = << [cb |-> "B", itemId |-> 1, key |-> 1] >>
  /\ << 1, "A" >> \in cancelled
  /\ << 0, "A" >> \in Subscribed(subscribers)

(***************************************************************************)
(* The retries of safeFetch (checked under SpecSafeFetch).                 *)
(***************************************************************************)
\* What a call of safeFetch has done so far, given where it is: every failed
\* attempt but the last allowed one was followed by one wait, of 2^i seconds
\* after attempt i; a result is the body of the first attempt that succeeded,
\* or the error of the last allowed attempt
SafeFetchShape(c) ==
  /\ c.attempts <= c.retries
  /\ \A k \in DOMAIN c.waits : c.waits[k] = BackoffSchedule[k]
  /\ c.pc = "fetching" =>
       c.attempts = c.i + 1 /\ Len(c.failures) = c.i /\ Len(c.waits) = c.i
  /\ c.pc = "waiting" =>
       /\ c.attempts = c.i + 1
       /\ c.attempts < c.retries
       /\ Len(c.failures) = c.i + 1
       /\ Len(c.waits) = c.i + 1
  /\ c.pc = "done" =>
       /\ Len(c.result) = 1
       /\ c.result[1].kind = "returns" =>
            /\ c.result[1].attempt = c.attempts - 1
            /\ Len(c.failures) = c.attempts - 1
            /\ Len(c.waits) = c.attempts - 1
       /\ c.result[1].kind = "throws" =>
            /\ c.attempts = c.retries
            /\ c.result[1].attempt = c.retries - 1
            /\ Len(c.failures) = c.retries
            /\ c.result[1].error = c.failures[c.retries]
            /\ Len(c.waits) = c.retries - 1
       /\ c.result[1].kind = "undefined" => c.retries = 0 /\ c.attempts = 0

\* C22: safeFetch always terminates: it makes at most `retries` attempts,
\* returns the body of the first attempt that succeeds without a further
\* attempt, waits 2^i seconds after the failed attempt i before the next
\* one, and after the last failed attempt rethrows that attempt's error
\* without a further wait.
C22_SafeFetchTerminates ==
  /\ []SafeFetchShape(safeFetchCall)
  /\ (safeFetchCall.pc \in { "fetching", "waiting" })
       ~> (safeFetchCall.pc = "done")

\* Three attempts failed, two waits of 1 s and 2 s lay between them, and the
\* error of the third was rethrown
C22_Witness ==
  /\ safeFetchCall.pc = "done"
  /\ safeFetchCall.retries = 3
  /\ safeFetchCall.attempts = 3
  /\ safeFetchCall.waits = << 1000, 2000 >>
  /\ safeFetchCall.failures = << "neterr", "httperr", "badjson" >>
  /\ safeFetchCall.result = << [kind |-> "throws", error |-> "badjson",
                                attempt |-> 2] >>

(***************************************************************************)
(* Disconnecting and the sockets alive (checked under SpecUpdater).        *)
(***************************************************************************)
\* The sockets that are open or connecting
LiveSockets(socks) ==
  { s \in DOMAIN socks : socks[s] \in { "connecting", "open" } }

\* C23: after disconnect() the updater stays disconnected: until connect()
\* is called again by the application, no reconnect is scheduled and no
\* WebSocket is created.
C23_StaysDisconnected ==
  [][(disconnected /\ handler' # "PriceUpdater.connect") =>
       /\ Len(reconnectTimers') <= Len(reconnectTimers)
       /\ Len(sockets') = Len(sockets)]_vars

\* C24: at most one WebSocket of the updater is open or connecting at any
\* time, and this.ws refers to it whenever there is one.
C24_OneLiveSocket ==
  /\ Cardinality(LiveSockets(sockets)) <= 1
  /\ \A s \in LiveSockets(sockets) : ws = s

(***************************************************************************)
(* Overlapping refreshes (checked under Spec).                             *)
(***************************************************************************)
\* The step was the continuation of a loadPrices call
PricesResponded(h) ==
  h \in { "loadPrices:ok", "loadPrices:httperr", "loadPrices:neterr",
          "loadPrices:storageerr" }

\* C25: when price refreshes overlap, the response of a refresh that was
\* started earlier and arrives after the response of the refresh started
\* last never overwrites it: it changes neither the snapshot, nor the rows
\* displayed, nor the alert rules.
C25_LatestRefreshWins ==
  [][(latestLoaded /\ PricesResponded(handler')) =>
       /\ allPrices' = allPrices
       /\ displayed' = displayed
       /\ priceAlerts' = priceAlerts]_vars

\* C26: after every refresh attempt, successful or failed, the statistics on
\* display are those of the snapshot held in allPrices.
C26_StatsOfCurrentSnapshot ==
  [][PricesResponded(handler') => stats' = UpdateStats(allPrices')]_vars

(***************************************************************************)
(* The frame of deleteAlert (checked under Spec).                          *)
(***************************************************************************)
\* Rules b are rules a with exactly one rule taken out
OneRuleRemoved(a, b) == \E k \in DOMAIN a : b = RemoveAt(a, k)

\* C27: deleteAlert(id) removes exactly the one rule the user chose and
\* leaves every other rule as it was, in memory and in the durable store,
\* also when two rules were saved in the same clock tick.
C27_DeletesExactlyOne ==
  [][handler' = "deleteAlert" =>
       /\ OneRuleRemoved(priceAlerts, priceAlerts')
       /\ OneRuleRemoved(StoredAlerts, StoredAlerts')]_vars

(***************************************************************************)
(* Redirect chains (checked under SpecRedirect).                           *)
(***************************************************************************)
\* C28: for every stored session the chain of automatic redirects between
\* the login page and the dashboards ends at a page that redirects no
\* further.
C28_RedirectsTerminate == (navigateTo # "none") ~> (navigateTo = "none")

====
